---- MODULE Spec2Model ----
(***************************************************************************)
(* Purchase-to-Pay workflow engine (workflow.py) over the document model   *)
(* (models.py).  The three document maps are sequences indexed by the      *)
(* order of creation: the id of a document is its index, and an id beyond  *)
(* the length of a map is an id the map does not hold.  A document's       *)
(* total_amount stands for the sum over its line items, which no workflow  *)
(* operation changes after creation.  Every datetime.now() the code        *)
(* compares is an input drawn from Times; a date that is only stamped is   *)
(* "None" or "now".                                                        *)
(***************************************************************************)
EXTENDS FiniteSets, Integers, Naturals, Sequences, TLC

\* ---------------------------------------------------------------- bounds
MaxPO == 1
MaxGR == 2
MaxInv == 1
MaxPolicies == 1
MaxAmount == 1
MaxTime == 1
\* longest approvals list an invoice may grow to over its resubmissions
MaxApprovals == 3
\* policies registered, and the largest amount looked up, when the lookup
\* is checked on its own
MaxPolicyList == 4
MaxLookup == 4
\* most edges a graph object may hold over its builds
MaxEdges == 8
\* documents of a kind when the queries on the graph are checked
MaxDocs == 2
\* invoices of the vendor when the fraud rules are checked
MaxFraudInvoices == 3
\* significand bits of a float (53 in Python), and the binary places of the
\* smallest step between floats
MantissaBits == 5
FracBits == 6

\* float('inf'), the default max_amount of a policy
Inf == 1000000

\* ---------------------------------------------------------------- inputs
Approvers == {"alice", "bob", "eve"}
Comments == {"ok"}
Reasons == {"hold", "fraud"}
Checkers == {"qc"}
\* vendor_id of the one vendor the callers of the workflow order from
VendorIds == {"V1"}
Amounts == 1..MaxAmount
\* instants datetime.now() returns, in days
Times == {30 * k : k \in 0..MaxTime}
InvoiceDates == Times

\* payment_terms the callers pass to create_purchase_order, and to
\* create_invoice, where "None" is the default payment_terms=None
POTerms == {"Net 60 Days"}
InvoiceTerms == {"None", "Immediate"}

\* Policies the callers register: one approver, two distinct approvers,
\* and no approver at all.
PolicyInputs ==
    { [name |-> "Manager",  min_amount |-> 1, max_amount |-> 1,
       required_approvers |-> <<"alice">>],
      [name |-> "Director", min_amount |-> 1, max_amount |-> Inf,
       required_approvers |-> <<"alice", "bob">>],
      [name |-> "Nobody",   min_amount |-> 1, max_amount |-> Inf,
       required_approvers |-> <<>>] }

\* Policies registered when the lookup is checked on its own: ranges that
\* overlap, nest, share a min_amount, and one that holds no amount.
PolicyChoices ==
    { [name |-> "Low",   min_amount |-> 0, max_amount |-> 2,
       required_approvers |-> <<"alice">>],
      [name |-> "Mid",   min_amount |-> 1, max_amount |-> 3,
       required_approvers |-> <<"alice", "bob">>],
      [name |-> "Point", min_amount |-> 1, max_amount |-> 1,
       required_approvers |-> <<"bob">>],
      [name |-> "High",  min_amount |-> 2, max_amount |-> Inf,
       required_approvers |-> <<"alice", "bob", "eve">>],
      [name |-> "Void",  min_amount |-> 3, max_amount |-> 2,
       required_approvers |-> <<>>] }
LookupAmounts == 0..MaxLookup

\* Optional[ApprovalPolicy] = None
NoPolicy ==
    [name |-> "None", min_amount |-> 0, max_amount |-> 0,
     required_approvers |-> <<>>]

\* ret is what the most recent call returned: "True", "False", "None", or
\* the kind of the document a create_* call returned
VARIABLES purchase_orders, goods_receipts, invoices, approval_policies, ret

\* graph is the MultiDiGraph of one P2PKnowledgeGraph object; report holds
\* the last bundle generate_comprehensive_report returned, if any
VARIABLES graph, report

vars == <<purchase_orders, goods_receipts, invoices, approval_policies, ret,
          graph, report>>

\* A node is named by its kind and its key: <<"Vendor", id>>, <<"PO", id>>,
\* <<"GR", id>>, <<"Invoice", id>>, <<"Approver", name>>.  nodes maps each
\* node to its attributes; edges lists the edges in the order add_edge made
\* them (a MultiDiGraph keeps parallel edges).  Departments, line items and
\* categories, which no workflow operation changes and no query modelled
\* here reads, are left out.
EmptyGraph == [nodes |-> <<>>, edges |-> <<>>]

\* ------------------------------------------------------- models.py
is_applicable(policy, amount) ==
    policy.min_amount <= amount /\ amount <= policy.max_amount

ApprovalRecord(approver) ==
    [approver |-> approver, status |-> "Pending", comments |-> ""]

\* for approver in policy.required_approvers: approvals.append(...)
RECURSIVE AppendRecords(_, _)
AppendRecords(approvals, approvers) ==
    IF approvers = <<>> THEN approvals
    ELSE AppendRecords(Append(approvals, ApprovalRecord(Head(approvers))),
                       Tail(approvers))

\* index of the record the loop of approve/reject breaks on, 0 if none
FirstPending(approvals, approver) ==
    LET hits == {i \in 1..Len(approvals) :
                    /\ approvals[i].approver = approver
                    /\ approvals[i].status = "Pending"}
    IN IF hits = {} THEN 0
       ELSE CHOOSE i \in hits : \A j \in hits : i <= j

MarkRecord(approvals, approver, status, comments) ==
    LET i == FirstPending(approvals, approver)
    IN IF i = 0 THEN approvals
       ELSE [approvals EXCEPT ![i].status = status, ![i].comments = comments]

AllApproved(approvals) ==
    \A i \in 1..Len(approvals) : approvals[i].status = "Approved"

PurchaseOrder(vendor_id, total, terms) ==
    [vendor_id |-> vendor_id,
     status |-> "Draft", total_amount |-> total, payment_terms |-> terms,
     approvals |-> <<>>, applicable_policy |-> NoPolicy,
     approval_date |-> "None", blocked_reason |-> ""]

\* as PurchaseOrder.submit_for_approval, but with a record for the first
\* required approver only
PurchaseOrder_submit_first_only(po, policy) ==
    [po EXCEPT !.status = "Pending Approval",
               !.applicable_policy = policy,
               !.approvals =
                  AppendRecords(po.approvals,
                                SubSeq(policy.required_approvers, 1, 1))]

PurchaseOrder_submit_for_approval(po, policy) ==
    [po EXCEPT !.status = "Pending Approval",
               !.applicable_policy = policy,
               !.approvals = AppendRecords(po.approvals,
                                           policy.required_approvers)]

\* as PurchaseOrder.approve, but with any() for all()
PurchaseOrder_approve_any(po, approver, comments) ==
    LET marked == MarkRecord(po.approvals, approver, "Approved", comments)
    IN IF \E i \in 1..Len(marked) : marked[i].status = "Approved"
       THEN [po EXCEPT !.approvals = marked, !.status = "Approved",
                       !.approval_date = "now"]
       ELSE [po EXCEPT !.approvals = marked]

PurchaseOrder_approve(po, approver, comments) ==
    LET marked == MarkRecord(po.approvals, approver, "Approved", comments)
    IN IF AllApproved(marked)
       THEN [po EXCEPT !.approvals = marked, !.status = "Approved",
                       !.approval_date = "now"]
       ELSE [po EXCEPT !.approvals = marked]

\* as PurchaseOrder.reject, but with the status set inside the loop, so
\* only when a record matched
PurchaseOrder_reject_if_matched(po, approver, comments) ==
    IF FirstPending(po.approvals, approver) = 0 THEN po
    ELSE [po EXCEPT !.approvals = MarkRecord(po.approvals, approver,
                                             "Rejected", comments),
                    !.status = "Rejected"]

PurchaseOrder_reject(po, approver, comments) ==
    [po EXCEPT !.approvals = MarkRecord(po.approvals, approver, "Rejected",
                                        comments),
               !.status = "Rejected"]

GoodsReceipt(po_id) ==
    [po_id |-> po_id, status |-> "Draft", quality_checked |-> FALSE,
     quality_checker |-> "", blocked_reason |-> ""]

\* as GoodsReceipt.receive_goods, but leaving the status as constructed
GoodsReceipt_receive_goods_in_draft(gr) ==
    gr

GoodsReceipt_receive_goods(gr) ==
    [gr EXCEPT !.status = "Received"]

\* as GoodsReceipt.perform_quality_check, but ignoring passed
GoodsReceipt_quality_check_accepts(gr, checker, passed) ==
    [gr EXCEPT !.quality_checked = TRUE,
               !.quality_checker = checker,
               !.status = "Accepted"]

GoodsReceipt_perform_quality_check(gr, checker, passed) ==
    [gr EXCEPT !.quality_checked = TRUE,
               !.quality_checker = checker,
               !.status = IF passed THEN "Accepted" ELSE "Rejected"]

\* days_map of Invoice.calculate_due_date
DaysOf(terms) ==
    CASE terms = "Immediate" -> 0
      [] terms = "Due on Receipt" -> 0
      [] terms = "Net 30 Days" -> 30
      [] terms = "Net 60 Days" -> 60
      [] terms = "Net 90 Days" -> 90
      [] OTHER -> 30

\* Invoice(...) and its __post_init__: due_date = invoice_date + days
Invoice(po_id, gr_id, vendor_id, terms, total, now) ==
    [po_id |-> po_id, gr_id |-> gr_id, vendor_id |-> vendor_id,
     status |-> "Draft",
     total_amount |-> total, payment_terms |-> terms,
     invoice_date |-> now,
     due_date |-> now + DaysOf(terms), payment_date |-> "None",
     approvals |-> <<>>, applicable_policy |-> NoPolicy,
     blocked_reason |-> ""]

Invoice_submit_for_approval(inv, policy) ==
    [inv EXCEPT !.status = "Pending Approval",
                !.applicable_policy = policy,
                !.approvals = AppendRecords(inv.approvals,
                                            policy.required_approvers)]

\* as Invoice.approve, but without the update of the status
Invoice_approve_records_only(inv, approver, comments) ==
    [inv EXCEPT !.approvals =
         MarkRecord(inv.approvals, approver, "Approved", comments)]

Invoice_approve(inv, approver, comments) ==
    LET marked == MarkRecord(inv.approvals, approver, "Approved", comments)
    IN IF AllApproved(marked)
       THEN [inv EXCEPT !.approvals = marked, !.status = "Approved"]
       ELSE [inv EXCEPT !.approvals = marked]

\* as Invoice.mark_as_paid, but without the payment_date
Invoice_mark_as_paid_undated(inv) ==
    [inv EXCEPT !.status = "Paid"]

Invoice_mark_as_paid(inv) ==
    [inv EXCEPT !.status = "Paid", !.payment_date = "now"]

\* as Invoice.check_overdue, but without the test of the status
Invoice_check_overdue_any_status(inv, now) ==
    IF now > inv.due_date
    THEN [inv EXCEPT !.status = "Overdue"]
    ELSE inv

Invoice_check_overdue(inv, now) ==
    IF inv.status = "Approved" /\ now > inv.due_date
    THEN [inv EXCEPT !.status = "Overdue"]
    ELSE inv

\* as Invoice.block, but leaving a Paid invoice alone
Invoice_block_unless_paid(inv, reason) ==
    IF inv.status = "Paid" THEN inv
    ELSE [inv EXCEPT !.status = "Blocked", !.blocked_reason = reason]

Invoice_block(inv, reason) ==
    [inv EXCEPT !.status = "Blocked", !.blocked_reason = reason]

\* as Invoice.unblock, but without the test of the status
Invoice_unblock_any(inv) ==
    [inv EXCEPT !.status = "Draft", !.blocked_reason = ""]

Invoice_unblock(inv) ==
    IF inv.status = "Blocked"
    THEN [inv EXCEPT !.status = "Draft", !.blocked_reason = ""]
    ELSE inv

\* ------------------------------------------------------- workflow.py
\* list.sort(key=min_amount) is stable: insertion sort that never moves an
\* element past one with an equal key
RECURSIVE InsertByMin(_, _)
InsertByMin(sorted, p) ==
    IF sorted = <<>> THEN <<p>>
    ELSE LET n == Len(sorted)
         IN IF sorted[n].min_amount <= p.min_amount
            THEN Append(sorted, p)
            ELSE Append(InsertByMin(SubSeq(sorted, 1, n - 1), p), sorted[n])

RECURSIVE SortByMin(_)
SortByMin(ps) ==
    IF ps = <<>> THEN <<>>
    ELSE InsertByMin(SortByMin(SubSeq(ps, 1, Len(ps) - 1)), ps[Len(ps)])

\* for policy in reversed(approval_policies): first applicable, else None
RECURSIVE ScanPolicies(_, _, _)
ScanPolicies(policies, i, amount) ==
    IF i = 0 THEN NoPolicy
    ELSE IF is_applicable(policies[i], amount) THEN policies[i]
    ELSE ScanPolicies(policies, i - 1, amount)

get_applicable_policy(policies, amount) ==
    ScanPolicies(policies, Len(policies), amount)

HasPO(id) == id \in 1..Len(purchase_orders)
HasGR(id) == id \in 1..Len(goods_receipts)
HasInvoice(id) == id \in 1..Len(invoices)

Init ==
    /\ purchase_orders = <<>>
    /\ goods_receipts = <<>>
    /\ invoices = <<>>
    /\ approval_policies = <<>>
    /\ ret = "None"
    /\ graph = EmptyGraph
    /\ report = <<>>

\* as add_approval_policy, but without the sort
add_approval_policy_unsorted(policy) ==
    /\ approval_policies' = Append(approval_policies, policy)
    /\ ret' = "None"
    /\ UNCHANGED <<purchase_orders, goods_receipts, invoices>>
    /\ UNCHANGED <<graph, report>>

add_approval_policy(policy) ==
    /\ approval_policies' = SortByMin(Append(approval_policies, policy))
    /\ ret' = "None"
    /\ UNCHANGED <<purchase_orders, goods_receipts, invoices>>
    /\ UNCHANGED <<graph, report>>

\* a call of get_applicable_policy(amount); ret is the name of the policy
\* returned, "None" for None
lookup_policy(amount) ==
    /\ ret' = get_applicable_policy(approval_policies, amount).name
    /\ UNCHANGED <<purchase_orders, goods_receipts, invoices,
                   approval_policies>>
    /\ UNCHANGED <<graph, report>>

create_purchase_order(vendor_id, total, terms) ==
    /\ purchase_orders' =
          Append(purchase_orders, PurchaseOrder(vendor_id, total, terms))
    /\ ret' = "PO"
    /\ UNCHANGED <<goods_receipts, invoices, approval_policies>>
    /\ UNCHANGED <<graph, report>>

\* as submit_po_for_approval, but taking a Rejected PO as well as a Draft
submit_po_for_approval_or_resubmit(po_id) ==
    /\ IF \/ ~HasPO(po_id)
          \/ purchase_orders[po_id].status \notin {"Draft", "Rejected"}
       THEN /\ ret' = "False"
            /\ UNCHANGED purchase_orders
       ELSE LET po == purchase_orders[po_id]
                policy == get_applicable_policy(approval_policies,
                                                po.total_amount)
            IN /\ purchase_orders' =
                     [purchase_orders EXCEPT ![po_id] =
                        IF policy = NoPolicy
                        THEN [po EXCEPT !.status = "Approved"]
                        ELSE PurchaseOrder_submit_for_approval(po, policy)]
               /\ ret' = "True"
    /\ UNCHANGED <<goods_receipts, invoices, approval_policies>>
    /\ UNCHANGED <<graph, report>>

submit_po_for_approval(po_id) ==
    /\ IF ~HasPO(po_id) \/ purchase_orders[po_id].status # "Draft"
       THEN /\ ret' = "False"
            /\ UNCHANGED purchase_orders
       ELSE LET po == purchase_orders[po_id]
                policy == get_applicable_policy(approval_policies,
                                                po.total_amount)
            IN /\ purchase_orders' =
                     [purchase_orders EXCEPT ![po_id] =
                        IF policy = NoPolicy
                        THEN [po EXCEPT !.status = "Approved"]
                        ELSE PurchaseOrder_submit_for_approval(po, policy)]
               /\ ret' = "True"
    /\ UNCHANGED <<goods_receipts, invoices, approval_policies>>
    /\ UNCHANGED <<graph, report>>

\* as approve_po, but without the test of the status
approve_po_any_status(po_id, approver, comments) ==
    /\ IF ~HasPO(po_id)
       THEN /\ ret' = "False"
            /\ UNCHANGED purchase_orders
       ELSE /\ purchase_orders' =
                  [purchase_orders EXCEPT ![po_id] =
                     PurchaseOrder_approve(purchase_orders[po_id], approver,
                                           comments)]
            /\ ret' = "True"
    /\ UNCHANGED <<goods_receipts, invoices, approval_policies>>
    /\ UNCHANGED <<graph, report>>

approve_po(po_id, approver, comments) ==
    /\ IF ~HasPO(po_id) \/ purchase_orders[po_id].status # "Pending Approval"
       THEN /\ ret' = "False"
            /\ UNCHANGED purchase_orders
       ELSE /\ purchase_orders' =
                  [purchase_orders EXCEPT ![po_id] =
                     PurchaseOrder_approve(purchase_orders[po_id], approver,
                                           comments)]
            /\ ret' = "True"
    /\ UNCHANGED <<goods_receipts, invoices, approval_policies>>
    /\ UNCHANGED <<graph, report>>

reject_po(po_id, approver, comments) ==
    /\ IF ~HasPO(po_id) \/ purchase_orders[po_id].status # "Pending Approval"
       THEN /\ ret' = "False"
            /\ UNCHANGED purchase_orders
       ELSE /\ purchase_orders' =
                  [purchase_orders EXCEPT ![po_id] =
                     PurchaseOrder_reject(purchase_orders[po_id], approver,
                                          comments)]
            /\ ret' = "True"
    /\ UNCHANGED <<goods_receipts, invoices, approval_policies>>
    /\ UNCHANGED <<graph, report>>

\* as create_goods_receipt, but without the update of the PO status
create_goods_receipt_keeps_po(po_id) ==
    /\ IF ~HasPO(po_id) \/ purchase_orders[po_id].status # "Approved"
       THEN /\ ret' = "None"
            /\ UNCHANGED goods_receipts
       ELSE /\ goods_receipts' =
                  Append(goods_receipts,
                         GoodsReceipt_receive_goods(GoodsReceipt(po_id)))
            /\ ret' = "GR"
    /\ UNCHANGED <<purchase_orders, invoices, approval_policies>>
    /\ UNCHANGED <<graph, report>>

create_goods_receipt(po_id) ==
    /\ IF ~HasPO(po_id) \/ purchase_orders[po_id].status # "Approved"
       THEN /\ ret' = "None"
            /\ UNCHANGED <<purchase_orders, goods_receipts>>
       ELSE /\ goods_receipts' =
                  Append(goods_receipts,
                         GoodsReceipt_receive_goods(GoodsReceipt(po_id)))
            /\ purchase_orders' =
                  [purchase_orders EXCEPT ![po_id].status = "In Progress"]
            /\ ret' = "GR"
    /\ UNCHANGED <<invoices, approval_policies>>
    /\ UNCHANGED <<graph, report>>

perform_quality_check(gr_id, checker, passed) ==
    /\ IF ~HasGR(gr_id) \/ goods_receipts[gr_id].status # "Received"
       THEN /\ ret' = "False"
            /\ UNCHANGED <<purchase_orders, goods_receipts>>
       ELSE LET grs == [goods_receipts EXCEPT ![gr_id] =
                          GoodsReceipt_perform_quality_check(
                              goods_receipts[gr_id], checker, passed)]
                po_id == grs[gr_id].po_id
                po_grs == {g \in 1..Len(grs) : grs[g].po_id = po_id}
            IN /\ goods_receipts' = grs
               /\ purchase_orders' =
                     IF /\ passed
                        /\ HasPO(po_id)
                        /\ \A g \in po_grs : grs[g].status = "Accepted"
                     THEN [purchase_orders EXCEPT
                              ![po_id].status = "Completed"]
                     ELSE purchase_orders
               /\ ret' = "True"
    /\ UNCHANGED <<invoices, approval_policies>>
    /\ UNCHANGED <<graph, report>>

\* as create_invoice, but without the check of the GR status
create_invoice_unchecked(po_id, gr_id, vendor_id, terms, total, now) ==
    /\ IF ~HasPO(po_id) \/ ~HasGR(gr_id)
       THEN /\ ret' = "None"
            /\ UNCHANGED invoices
       ELSE /\ invoices' =
                  Append(invoices,
                         Invoice(po_id, gr_id, vendor_id,
                                 IF terms = "None"
                                 THEN purchase_orders[po_id].payment_terms
                                 ELSE terms,
                                 total, now))
            /\ ret' = "Invoice"
    /\ UNCHANGED <<purchase_orders, goods_receipts, approval_policies>>
    /\ UNCHANGED <<graph, report>>

\* terms = "None" is payment_terms=None; now is the datetime.now() that
\* the invoice_date default reads
create_invoice(po_id, gr_id, vendor_id, terms, total, now) ==
    /\ IF \/ ~HasPO(po_id)
          \/ ~HasGR(gr_id)
          \/ goods_receipts[gr_id].status # "Accepted"
       THEN /\ ret' = "None"
            /\ UNCHANGED invoices
       ELSE /\ invoices' =
                  Append(invoices,
                         Invoice(po_id, gr_id, vendor_id,
                                 IF terms = "None"
                                 THEN purchase_orders[po_id].payment_terms
                                 ELSE terms,
                                 total, now))
            /\ ret' = "Invoice"
    /\ UNCHANGED <<purchase_orders, goods_receipts, approval_policies>>
    /\ UNCHANGED <<graph, report>>

submit_invoice_for_approval(invoice_id) ==
    /\ IF ~HasInvoice(invoice_id) \/ invoices[invoice_id].status # "Draft"
       THEN /\ ret' = "False"
            /\ UNCHANGED invoices
       ELSE LET inv == invoices[invoice_id]
                policy == get_applicable_policy(approval_policies,
                                                inv.total_amount)
            IN /\ Len(inv.approvals) + Len(policy.required_approvers)
                     <= MaxApprovals
               /\ invoices' =
                     [invoices EXCEPT ![invoice_id] =
                        IF policy = NoPolicy
                        THEN [inv EXCEPT !.status = "Approved"]
                        ELSE Invoice_submit_for_approval(inv, policy)]
               /\ ret' = "True"
    /\ UNCHANGED <<purchase_orders, goods_receipts, approval_policies>>
    /\ UNCHANGED <<graph, report>>

approve_invoice(invoice_id, approver, comments) ==
    /\ IF \/ ~HasInvoice(invoice_id)
          \/ invoices[invoice_id].status # "Pending Approval"
       THEN /\ ret' = "False"
            /\ UNCHANGED invoices
       ELSE /\ invoices' =
                  [invoices EXCEPT ![invoice_id] =
                     Invoice_approve(invoices[invoice_id], approver, comments)]
            /\ ret' = "True"
    /\ UNCHANGED <<purchase_orders, goods_receipts, approval_policies>>
    /\ UNCHANGED <<graph, report>>

pay_invoice(invoice_id) ==
    /\ IF ~HasInvoice(invoice_id) \/ invoices[invoice_id].status # "Approved"
       THEN /\ ret' = "False"
            /\ UNCHANGED invoices
       ELSE /\ invoices' =
                  [invoices EXCEPT ![invoice_id] =
                     Invoice_mark_as_paid(invoices[invoice_id])]
            /\ ret' = "True"
    /\ UNCHANGED <<purchase_orders, goods_receipts, approval_policies>>
    /\ UNCHANGED <<graph, report>>

\* now is the datetime.now() read by Invoice.check_overdue
check_overdue_invoices(now) ==
    /\ invoices' = [i \in 1..Len(invoices) |->
                       Invoice_check_overdue(invoices[i], now)]
    /\ ret' = "None"
    /\ UNCHANGED <<purchase_orders, goods_receipts, approval_policies>>
    /\ UNCHANGED <<graph, report>>

block_po(po_id, reason) ==
    /\ IF ~HasPO(po_id)
       THEN /\ ret' = "False"
            /\ UNCHANGED purchase_orders
       ELSE /\ purchase_orders' =
                  [purchase_orders EXCEPT ![po_id].status = "Blocked",
                                          ![po_id].blocked_reason = reason]
            /\ ret' = "True"
    /\ UNCHANGED <<goods_receipts, invoices, approval_policies>>
    /\ UNCHANGED <<graph, report>>

block_gr(gr_id, reason) ==
    /\ IF ~HasGR(gr_id)
       THEN /\ ret' = "False"
            /\ UNCHANGED goods_receipts
       ELSE /\ goods_receipts' =
                  [goods_receipts EXCEPT ![gr_id].status = "Blocked",
                                         ![gr_id].blocked_reason = reason]
            /\ ret' = "True"
    /\ UNCHANGED <<purchase_orders, invoices, approval_policies>>
    /\ UNCHANGED <<graph, report>>

block_invoice(invoice_id, reason) ==
    /\ IF ~HasInvoice(invoice_id)
       THEN /\ ret' = "False"
            /\ UNCHANGED invoices
       ELSE /\ invoices' =
                  [invoices EXCEPT ![invoice_id] =
                     Invoice_block(invoices[invoice_id], reason)]
            /\ ret' = "True"
    /\ UNCHANGED <<purchase_orders, goods_receipts, approval_policies>>
    /\ UNCHANGED <<graph, report>>

unblock_invoice(invoice_id) ==
    /\ IF ~HasInvoice(invoice_id)
       THEN /\ ret' = "False"
            /\ UNCHANGED invoices
       ELSE /\ invoices' =
                  [invoices EXCEPT ![invoice_id] =
                     Invoice_unblock(invoices[invoice_id])]
            /\ ret' = "True"
    /\ UNCHANGED <<purchase_orders, goods_receipts, approval_policies>>
    /\ UNCHANGED <<graph, report>>

\* get_statistics()['total_spend']: the sum of total_amount over the
\* first n invoices that are Paid
RECURSIVE PaidSum(_, _)
PaidSum(invs, n) ==
    IF n = 0 THEN 0
    ELSE PaidSum(invs, n - 1)
            + (IF invs[n].status = "Paid" THEN invs[n].total_amount ELSE 0)

total_spend(invs) == PaidSum(invs, Len(invs))

\* ---------------------------------------------------- kg_reasoning.py
\* Graph.add_node: a new node, or new attributes for an old one
add_node(g, id, attrs) ==
    [g EXCEPT !.nodes = [n \in DOMAIN g.nodes \cup {id} |->
                            IF n = id THEN attrs ELSE g.nodes[n]]]

\* Graph.add_edge: an end the graph does not hold becomes a node with no
\* attributes, whose d.get('type') is None
add_edge(g, src, dst, relation, status) ==
    [nodes |-> [n \in DOMAIN g.nodes \cup {src, dst} |->
                   IF n \in DOMAIN g.nodes THEN g.nodes[n]
                   ELSE [type |-> "None"]],
     edges |-> Append(g.edges, [src |-> src, dst |-> dst,
                                relation |-> relation,
                                status |-> status])]

add_vendor(g, vendor_id) ==
    add_node(g, <<"Vendor", vendor_id>>,
             [type |-> "Vendor", name |-> vendor_id])

add_approver(g, approver) ==
    add_node(g, <<"Approver", approver>>,
             [type |-> "Approver", name |-> approver])

\* for approval in doc.approvals: add_edge(doc, approver, ...), from the
\* k-th record on
RECURSIVE ApprovalEdges(_, _, _, _)
ApprovalEdges(g, id, approvals, k) ==
    IF k > Len(approvals) THEN g
    ELSE ApprovalEdges(add_edge(g, id, <<"Approver", approvals[k].approver>>,
                                "REQUIRES_APPROVAL", approvals[k].status),
                       id, approvals, k + 1)

add_purchase_order(g, po_id, po) ==
    LET id == <<"PO", po_id>>
        g1 == add_node(g, id,
                       [type |-> "PurchaseOrder",
                        amount |-> po.total_amount,
                        status |-> po.status,
                        blocked |-> (po.status = "Blocked"),
                        blocked_reason |-> po.blocked_reason])
        g2 == add_edge(g1, id, <<"Vendor", po.vendor_id>>, "FROM_VENDOR",
                       "None")
    IN ApprovalEdges(g2, id, po.approvals, 1)

add_goods_receipt(g, gr_id, gr, pos) ==
    LET g1 == add_node(g, <<"GR", gr_id>>,
                       [type |-> "GoodsReceipt",
                        status |-> gr.status,
                        quality_checked |-> gr.quality_checked,
                        blocked |-> (gr.status = "Blocked"),
                        blocked_reason |-> gr.blocked_reason])
    IN IF gr.po_id \in 1..Len(pos)
       THEN add_edge(g1, <<"GR", gr_id>>, <<"PO", gr.po_id>>, "VALIDATES",
                     "None")
       ELSE g1

\* as add_invoice, but without the edge to the goods receipt
add_invoice_without_gr(g, inv_id, inv, pos, grs) ==
    LET id == <<"Invoice", inv_id>>
        g1 == add_node(g, id,
                       [type |-> "Invoice",
                        amount |-> inv.total_amount,
                        status |-> inv.status,
                        invoice_date |-> inv.invoice_date,
                        due_date |-> inv.due_date,
                        blocked |-> (inv.status = "Blocked"),
                        blocked_reason |-> inv.blocked_reason])
        g2 == IF inv.po_id \in 1..Len(pos)
              THEN add_edge(g1, id, <<"PO", inv.po_id>>, "REFERENCES_PO",
                            "None")
              ELSE g1
        g4 == add_edge(g2, id, <<"Vendor", inv.vendor_id>>, "FROM_VENDOR",
                       "None")
    IN ApprovalEdges(g4, id, inv.approvals, 1)

add_invoice(g, inv_id, inv, pos, grs) ==
    LET id == <<"Invoice", inv_id>>
        g1 == add_node(g, id,
                       [type |-> "Invoice",
                        amount |-> inv.total_amount,
                        status |-> inv.status,
                        invoice_date |-> inv.invoice_date,
                        due_date |-> inv.due_date,
                        blocked |-> (inv.status = "Blocked"),
                        blocked_reason |-> inv.blocked_reason])
        g2 == IF inv.po_id \in 1..Len(pos)
              THEN add_edge(g1, id, <<"PO", inv.po_id>>, "REFERENCES_PO",
                            "None")
              ELSE g1
        g3 == IF inv.gr_id \in 1..Len(grs)
              THEN add_edge(g2, id, <<"GR", inv.gr_id>>, "REFERENCES_GR",
                            "None")
              ELSE g2
        g4 == add_edge(g3, id, <<"Vendor", inv.vendor_id>>, "FROM_VENDOR",
                       "None")
    IN ApprovalEdges(g4, id, inv.approvals, 1)

\* the approvers of the records of the first n documents
RECURSIVE ApproversOf(_, _)
ApproversOf(docs, n) ==
    IF n = 0 THEN {}
    ELSE ApproversOf(docs, n - 1)
            \cup {docs[n].approvals[k].approver :
                     k \in 1..Len(docs[n].approvals)}

\* for vendor_id, vendor_name in vendors: self.add_vendor(...), over the
\* vendors of the POs
RECURSIVE AddVendors(_, _)
AddVendors(g, vendors) ==
    IF vendors = {} THEN g
    ELSE LET v == CHOOSE x \in vendors : TRUE
         IN AddVendors(add_vendor(g, v), vendors \ {v})

\* for approver in approvers: self.add_approver(approver)
RECURSIVE AddApprovers(_, _)
AddApprovers(g, approvers) ==
    IF approvers = {} THEN g
    ELSE LET a == CHOOSE x \in approvers : TRUE
         IN AddApprovers(add_approver(g, a), approvers \ {a})

\* the three loops over the documents, each from the k-th document on
RECURSIVE AddPurchaseOrders(_, _, _)
AddPurchaseOrders(g, pos, k) ==
    IF k > Len(pos) THEN g
    ELSE AddPurchaseOrders(add_purchase_order(g, k, pos[k]), pos, k + 1)

RECURSIVE AddGoodsReceipts(_, _, _, _)
AddGoodsReceipts(g, grs, pos, k) ==
    IF k > Len(grs) THEN g
    ELSE AddGoodsReceipts(add_goods_receipt(g, k, grs[k], pos), grs, pos,
                          k + 1)

RECURSIVE AddInvoices(_, _, _, _, _)
AddInvoices(g, invs, pos, grs, k) ==
    IF k > Len(invs) THEN g
    ELSE AddInvoices(add_invoice(g, k, invs[k], pos, grs), invs, pos, grs,
                     k + 1)

\* build_graph_from_workflow on a graph object that holds g already
BuildGraph(g, pos, grs, invs) ==
    LET g0 == AddVendors(g, {pos[k].vendor_id : k \in 1..Len(pos)})
        g1 == AddApprovers(g0, ApproversOf(pos, Len(pos))
                                  \cup ApproversOf(invs, Len(invs)))
        g2 == AddPurchaseOrders(g1, pos, 1)
        g3 == AddGoodsReceipts(g2, grs, pos, 1)
    IN AddInvoices(g3, invs, pos, grs, 1)

NodesOfType(g, type) == {n \in DOMAIN g.nodes : g.nodes[n].type = type}

\* [v for u, v, d in out_edges(src) if d.get('relation') == relation]
RECURSIVE Targets(_, _, _, _)
Targets(g, src, relation, k) ==
    IF k > Len(g.edges) THEN <<>>
    ELSE (IF g.edges[k].src = src /\ g.edges[k].relation = relation
          THEN <<g.edges[k].dst>> ELSE <<>>)
         \o Targets(g, src, relation, k + 1)

\* the issues detect_three_way_match_issues appends for one invoice;
\* error is the exception the division raises on a PO amount of 0
InvoiceIssues(g, inv) ==
    LET po_edges == Targets(g, inv, "REFERENCES_PO", 1)
        gr_edges == Targets(g, inv, "REFERENCES_GR", 1)
    IN IF po_edges = <<>> \/ gr_edges = <<>>
       THEN [issues |-> <<[invoice_id |-> inv,
                           issue |-> "Missing PO or GR reference",
                           severity |-> "HIGH"]>>,
             error |-> "None"]
       ELSE LET invoice_amount == g.nodes[inv].amount
                po_amount == g.nodes[po_edges[1]].amount
                diff == IF invoice_amount >= po_amount
                        THEN invoice_amount - po_amount
                        ELSE po_amount - invoice_amount
            IN IF po_amount = 0
               THEN [issues |-> <<>>, error |-> "ZeroDivisionError"]
               ELSE [issues |->
                        (IF 100 * diff > 5 * po_amount
                         THEN <<[invoice_id |-> inv,
                                 issue |-> "Invoice amount differs from PO",
                                 severity |-> "MEDIUM"]>>
                         ELSE <<>>)
                        \o (IF g.nodes[gr_edges[1]].status # "Accepted"
                            THEN <<[invoice_id |-> inv,
                                    issue |-> "GR not accepted",
                                    severity |-> "HIGH"]>>
                            ELSE <<>>),
                     error |-> "None"]

\* for invoice_id in invoices: ..., over the invoice nodes left to visit
RECURSIVE detect_issues_of(_, _)
detect_issues_of(g, todo) ==
    IF todo = {} THEN [issues |-> <<>>, error |-> "None"]
    ELSE LET inv == CHOOSE n \in todo : \A m \in todo : n[2] <= m[2]
             first == InvoiceIssues(g, inv)
             rest == detect_issues_of(g, todo \ {inv})
         IN IF first.error # "None" THEN first
            ELSE [issues |-> first.issues \o rest.issues,
                  error |-> rest.error]

detect_three_way_match_issues(g) ==
    detect_issues_of(g, NodesOfType(g, "Invoice"))

\* [u for u, v, d in in_edges(vendor) if d.relation == 'FROM_VENDOR' and
\* nodes[u].type == type], one entry for each such edge
VendorDocs(g, vendor, type) ==
    LET Hit(e) == /\ e.dst = vendor
                  /\ e.relation = "FROM_VENDOR"
                  /\ g.nodes[e.src].type = type
        hits == SelectSeq(g.edges, Hit)
    IN [k \in 1..Len(hits) |-> hits[k].src]

get_vendor_pos(g, vendor) == VendorDocs(g, vendor, "PurchaseOrder")

get_vendor_invoices(g, vendor) == VendorDocs(g, vendor, "Invoice")

get_blocked_documents(g, vendor) ==
    LET Blocked(doc) == g.nodes[doc].blocked
    IN SelectSeq(get_vendor_pos(g, vendor) \o get_vendor_invoices(g, vendor),
                 Blocked)

\* [v for u, v, d in out_edges(po) if nodes[v].type == 'GoodsReceipt'],
\* then those whose status is Rejected
RejectedOf(g, po) ==
    LET Hit(e) == /\ e.src = po
                  /\ g.nodes[e.dst].type = "GoodsReceipt"
                  /\ g.nodes[e.dst].status = "Rejected"
        hits == SelectSeq(g.edges, Hit)
    IN [k \in 1..Len(hits) |-> hits[k].dst]

\* for po_id in pos: rejected.extend(...), from the k-th PO on
RECURSIVE RejectedFrom(_, _, _)
RejectedFrom(g, pos, k) ==
    IF k > Len(pos) THEN <<>>
    ELSE RejectedOf(g, pos[k]) \o RejectedFrom(g, pos, k + 1)

get_rejected_goods_receipts(g, vendor) ==
    RejectedFrom(g, get_vendor_pos(g, vendor), 1)

get_overdue_invoices(g, vendor) ==
    LET Overdue(inv) == g.nodes[inv].status = "Overdue"
    IN SelectSeq(get_vendor_invoices(g, vendor), Overdue)

\* the entry of one vendor in calculate_vendor_risk_scores
VendorRisk(g, vendor) ==
    LET blocked_score == Len(get_blocked_documents(g, vendor)) * 20
        quality_score == Len(get_rejected_goods_receipts(g, vendor)) * 30
        overdue_score == Len(get_overdue_invoices(g, vendor)) * 15
        issues == blocked_score + quality_score + overdue_score
        transaction_count == Len(get_vendor_pos(g, vendor))
        score == IF transaction_count > 5 /\ issues = 0
                 THEN issues - 10 ELSE issues
    IN [risk_score |-> IF score > 0 THEN score ELSE 0,
        risk_level |-> IF score < 30 THEN "LOW"
                       ELSE IF score < 60 THEN "MEDIUM" ELSE "HIGH",
        transaction_count |-> transaction_count]

calculate_vendor_risk_scores(g) ==
    [vendor \in NodesOfType(g, "Vendor") |-> VendorRisk(g, vendor)]

\* the nodes of a set in the order the build added them: by id
RECURSIVE InOrder(_)
InOrder(nodes) ==
    IF nodes = {} THEN <<>>
    ELSE LET n == CHOOSE x \in nodes : \A y \in nodes : x[2] <= y[2]
         IN <<n>> \o InOrder(nodes \ {n})

\* [n for n, d in nodes if d.type == type and d.status == 'Pending Approval']
PendingDocs(g, type) ==
    InOrder({n \in NodesOfType(g, type) :
                g.nodes[n].status = "Pending Approval"})

\* as DelayOf, but counting an amount of 10000 as high
DelayOf_from_10000(g, doc) ==
    LET amount == g.nodes[doc].amount
        Waiting(e) == /\ e.src = doc
                      /\ e.relation = "REQUIRES_APPROVAL"
                      /\ e.status = "Pending"
        approvers == SelectSeq(g.edges, Waiting)
        vendor_edges == Targets(g, doc, "FROM_VENDOR", 1)
        risk_score ==
            (IF amount >= 10000 THEN 30 ELSE 0)
            + (IF Len(approvers) >= 3 THEN 20 ELSE 0)
            + (IF /\ vendor_edges # <<>>
                  /\ get_blocked_documents(g, vendor_edges[1]) # <<>>
               THEN 25 ELSE 0)
    IN [document_id |-> doc,
        document_type |-> g.nodes[doc].type,
        amount |-> amount,
        delay_risk_score |-> risk_score,
        risk_level |-> IF risk_score >= 60 THEN "HIGH" ELSE "MEDIUM",
        pending_approvers |-> Len(approvers)]

\* the prediction predict_approval_delays computes for one pending document
DelayOf(g, doc) ==
    LET amount == g.nodes[doc].amount
        Waiting(e) == /\ e.src = doc
                      /\ e.relation = "REQUIRES_APPROVAL"
                      /\ e.status = "Pending"
        approvers == SelectSeq(g.edges, Waiting)
        vendor_edges == Targets(g, doc, "FROM_VENDOR", 1)
        risk_score ==
            (IF amount > 10000 THEN 30 ELSE 0)
            + (IF Len(approvers) >= 3 THEN 20 ELSE 0)
            + (IF /\ vendor_edges # <<>>
                  /\ get_blocked_documents(g, vendor_edges[1]) # <<>>
               THEN 25 ELSE 0)
    IN [document_id |-> doc,
        document_type |-> g.nodes[doc].type,
        amount |-> amount,
        delay_risk_score |-> risk_score,
        risk_level |-> IF risk_score >= 60 THEN "HIGH" ELSE "MEDIUM",
        pending_approvers |-> Len(approvers)]

predict_approval_delays(g) ==
    LET docs == PendingDocs(g, "PurchaseOrder") \o PendingDocs(g, "Invoice")
        Reported(prediction) == prediction.delay_risk_score >= 30
    IN SelectSeq([k \in 1..Len(docs) |-> DelayOf(g, docs[k])], Reported)

\* ---------------------------------------------------------------- floats
\* A float is held as the whole number of steps of 2^-FracBits it is worth.
\* Rounding is Python's: to the nearest float of MantissaBits significand
\* bits, and of two equally near ones to the one with the even significand.
RECURSIVE Pow2(_)
Pow2(n) == IF n = 0 THEN 1 ELSE 2 * Pow2(n - 1)

\* float(n) for an int n that a float holds exactly
ToFloat(n) == n * Pow2(FracBits)

\* the distance between neighbouring floats around num / den
RECURSIVE Ulp(_, _, _)
Ulp(num, den, u) ==
    IF num < Pow2(MantissaBits) * u * den THEN u ELSE Ulp(num, den, 2 * u)

\* the float nearest to num / den
Fl(num, den) ==
    LET u == Ulp(num, den, 1)
        d == den * u
        q == num \div d
        r == num % d
        m == IF 2 * r < d THEN q
             ELSE IF 2 * r > d THEN q + 1
             ELSE IF q % 2 = 0 THEN q ELSE q + 1
    IN m * u

\* the exact sum of the first n amounts, in steps
RECURSIVE ExactSum(_, _)
ExactSum(amounts, n) ==
    IF n = 0 THEN 0 ELSE ExactSum(amounts, n - 1) + ToFloat(amounts[n])

\* statistics.mean: the exact sum, divided and rounded once
mean(amounts) == Fl(ExactSum(amounts, Len(amounts)), Len(amounts))

\* sum(): a float addition, rounded, for each of the first n amounts
RECURSIVE float_sum(_, _)
float_sum(amounts, n) ==
    IF n = 0 THEN 0
    ELSE Fl(float_sum(amounts, n - 1) + ToFloat(amounts[n]), 1)

\* --------------------------------------------------------- fraud patterns
AmountsOf(g, docs) == [k \in 1..Len(docs) |-> g.nodes[docs[k]].amount]

\* invoice_amount > avg_amount * 3
IsUnusual(amount, avg_amount) ==
    ToFloat(amount) > Fl(avg_amount * 3, 1)

\* rule 1 for one vendor: unusual invoice amounts
UnusualAmounts(g, vendor) ==
    LET vendor_invoices == get_vendor_invoices(g, vendor)
        avg_amount == mean(AmountsOf(g, vendor_invoices))
        Unusual(inv) == IsUnusual(g.nodes[inv].amount, avg_amount)
        hits == SelectSeq(vendor_invoices, Unusual)
    IN IF Len(vendor_invoices) >= 2
       THEN [k \in 1..Len(hits) |->
               [type |-> "Unusual Invoice Amount",
                severity |-> "HIGH",
                vendor |-> g.nodes[vendor].name,
                invoice_id |-> hits[k],
                amount |-> ToFloat(g.nodes[hits[k]].amount),
                average |-> avg_amount,
                count |-> 1]]
       ELSE <<>>

\* [inv for inv in invoices if nodes[inv].invoice_date > now - days]
get_recent_invoices(g, vendor, days, now) ==
    LET Recent(inv) == g.nodes[inv].invoice_date > now - days
    IN SelectSeq(get_vendor_invoices(g, vendor), Recent)

\* rule 2 for one vendor: split invoicing
SplitInvoicing(g, vendor, now) ==
    LET recent_invoices == get_recent_invoices(g, vendor, 30, now)
        amounts == AmountsOf(g, recent_invoices)
        total == float_sum(amounts, Len(amounts))
    IN IF Len(recent_invoices) >= 3 /\ total > ToFloat(10000)
       THEN <<[type |-> "Possible Split Invoicing",
               severity |-> "MEDIUM",
               vendor |-> g.nodes[vendor].name,
               invoice_id |-> <<"None", 0>>,
               amount |-> total,
               average |-> 0,
               count |-> Len(recent_invoices)]>>
       ELSE <<>>

\* rule 3 for one vendor: blocked documents
BlockedPattern(g, vendor) ==
    LET blocked_docs == get_blocked_documents(g, vendor)
    IN IF Len(blocked_docs) >= 2
       THEN <<[type |-> "Multiple Blocked Documents",
               severity |-> "HIGH",
               vendor |-> g.nodes[vendor].name,
               invoice_id |-> <<"None", 0>>,
               amount |-> 0,
               average |-> 0,
               count |-> Len(blocked_docs)]>>
       ELSE <<>>

\* the vendors in the order the build met them, which is that of a Python
\* set and left open here
RECURSIVE VendorList(_)
VendorList(vendors) ==
    IF vendors = {} THEN <<>>
    ELSE LET v == CHOOSE x \in vendors : TRUE
         IN <<v>> \o VendorList(vendors \ {v})

\* the items a rule adds, vendor after vendor: the first n lists, joined
RECURSIVE Gathered(_, _)
Gathered(lists, n) ==
    IF n = 0 THEN <<>>
    ELSE Gathered(lists, n - 1) \o lists[n]

\* now is the datetime.now() read by _get_recent_invoices
detect_fraud_patterns(g, now) ==
    LET vendors == VendorList(NodesOfType(g, "Vendor"))
        n == Len(vendors)
        rule1 == [k \in 1..n |-> UnusualAmounts(g, vendors[k])]
        rule2 == [k \in 1..n |-> SplitInvoicing(g, vendors[k], now)]
        rule3 == [k \in 1..n |-> BlockedPattern(g, vendors[k])]
    IN Gathered(rule1, n) \o Gathered(rule2, n) \o Gathered(rule3, n)

\* the graph_stats entry of the report
graph_stats(g) ==
    [total_nodes |-> Cardinality(DOMAIN g.nodes),
     total_edges |-> Len(g.edges),
     total_vendors |-> Cardinality(NodesOfType(g, "Vendor")),
     total_pos |-> Cardinality(NodesOfType(g, "PurchaseOrder")),
     total_invoices |-> Cardinality(NodesOfType(g, "Invoice"))]

\* the report generate_comprehensive_report makes of a graph: the entries
\* that read documents, vendors, approvals and their edges, less the fraud
\* patterns, which read the clock as well
ReportOf(g) ==
    [vendor_risks |-> calculate_vendor_risk_scores(g),
     three_way_match_issues |-> detect_three_way_match_issues(g).issues,
     approval_delays |-> predict_approval_delays(g),
     graph_stats |-> graph_stats(g)]

build_graph_from_workflow ==
    /\ graph' = BuildGraph(graph, purchase_orders, goods_receipts, invoices)
    /\ ret' = "None"
    /\ UNCHANGED <<purchase_orders, goods_receipts, invoices,
                   approval_policies, report>>

\* as generate_comprehensive_report, but building the graph from the
\* workflow first
generate_comprehensive_report_rebuilding ==
    LET g == BuildGraph(graph, purchase_orders, goods_receipts, invoices)
    IN /\ Len(g.edges) <= MaxEdges
       /\ graph' = g
       /\ IF detect_three_way_match_issues(g).error # "None"
          THEN /\ ret' = detect_three_way_match_issues(g).error
               /\ UNCHANGED report
          ELSE /\ ret' = "Report"
               /\ report' = <<ReportOf(g)>>
       /\ UNCHANGED <<purchase_orders, goods_receipts, invoices,
                      approval_policies>>

\* generate_comprehensive_report(workflow): the queries read self.graph;
\* the workflow argument is not used
generate_comprehensive_report ==
    /\ IF detect_three_way_match_issues(graph).error # "None"
       THEN /\ ret' = detect_three_way_match_issues(graph).error
            /\ UNCHANGED report
       ELSE /\ ret' = "Report"
            /\ report' = <<ReportOf(graph)>>
    /\ UNCHANGED <<purchase_orders, goods_receipts, invoices,
                   approval_policies, graph>>

\* the maps and the graph at their largest
WithinBounds ==
    /\ Len(purchase_orders') <= MaxPO
    /\ Len(goods_receipts') <= MaxGR
    /\ Len(invoices') <= MaxInv
    /\ Len(graph'.edges) <= MaxEdges

\* a call of calculate_vendor_risk_scores() on the graph object
call_calculate_vendor_risk_scores ==
    /\ ret' = "Risks"
    /\ report' = <<calculate_vendor_risk_scores(graph)>>
    /\ UNCHANGED <<purchase_orders, goods_receipts, invoices,
                   approval_policies, graph>>

\* a call of detect_three_way_match_issues() on the graph object; the
\* exception, if one is raised, reaches the caller
call_detect_three_way_match_issues ==
    /\ IF detect_three_way_match_issues(graph).error # "None"
       THEN /\ ret' = detect_three_way_match_issues(graph).error
            /\ UNCHANGED report
       ELSE /\ ret' = "Issues"
            /\ report' = <<detect_three_way_match_issues(graph).issues>>
    /\ UNCHANGED <<purchase_orders, goods_receipts, invoices,
                   approval_policies, graph>>

\* a call of predict_approval_delays() on the graph object
call_predict_approval_delays ==
    /\ ret' = "Delays"
    /\ report' = <<predict_approval_delays(graph)>>
    /\ UNCHANGED <<purchase_orders, goods_receipts, invoices,
                   approval_policies, graph>>

\* a call of detect_fraud_patterns() on the graph object
call_detect_fraud_patterns(now) ==
    /\ ret' = "Fraud"
    /\ report' = <<detect_fraud_patterns(graph, now)>>
    /\ UNCHANGED <<purchase_orders, goods_receipts, invoices,
                   approval_policies, graph>>

\* ids the callers pass: every id a map can hold and one it never holds
PoIds == 1..(MaxPO + 1)
GrIds == 1..(MaxGR + 1)
InvoiceIds == 1..(MaxInv + 1)

Next ==
    \/ \E p \in PolicyInputs :
          Len(approval_policies) < MaxPolicies /\ add_approval_policy(p)
    \/ \E v \in VendorIds, a \in Amounts, t \in POTerms :
          create_purchase_order(v, a, t) /\ WithinBounds
    \/ \E id \in PoIds : submit_po_for_approval(id)
    \/ \E id \in PoIds, who \in Approvers, c \in Comments :
          approve_po(id, who, c)
    \/ \E id \in PoIds, who \in Approvers, c \in Comments :
          reject_po(id, who, c)
    \/ \E id \in PoIds : create_goods_receipt(id) /\ WithinBounds
    \/ \E id \in GrIds, c \in Checkers, passed \in BOOLEAN :
          perform_quality_check(id, c, passed)
    \/ \E po \in PoIds, gr \in GrIds, v \in VendorIds, t \in InvoiceTerms,
          a \in Amounts, now \in InvoiceDates :
          create_invoice(po, gr, v, t, a, now) /\ WithinBounds
    \/ \E id \in InvoiceIds : submit_invoice_for_approval(id)
    \/ \E id \in InvoiceIds, who \in Approvers, c \in Comments :
          approve_invoice(id, who, c)
    \/ \E id \in InvoiceIds : pay_invoice(id)
    \/ \E now \in Times : check_overdue_invoices(now)
    \/ \E id \in PoIds, r \in Reasons : block_po(id, r)
    \/ \E id \in GrIds, r \in Reasons : block_gr(id, r)
    \/ \E id \in InvoiceIds, r \in Reasons : block_invoice(id, r)
    \/ \E id \in InvoiceIds : unblock_invoice(id)

Spec == Init /\ [][Next]_vars

\* The policy list on its own: policies registered in every order, and
\* looked up for every amount.
PolicyNext ==
    \/ \E p \in PolicyChoices :
          Len(approval_policies) < MaxPolicyList /\ add_approval_policy(p)
    \/ \E a \in LookupAmounts : lookup_policy(a)

PolicySpec == Init /\ [][PolicyNext]_vars

\* The workflow with one knowledge graph object beside it: the calls that
\* take a PO under the one-approver policy to its invoice (new documents,
\* status changes, an approval), blocking and unblocking, and builds and
\* reports at any point between them.
GraphNext ==
    \/ \E p \in {q \in PolicyInputs : Len(q.required_approvers) = 1} :
          Len(approval_policies) < MaxPolicies /\ add_approval_policy(p)
    \/ \E v \in VendorIds, a \in Amounts, t \in POTerms :
          create_purchase_order(v, a, t) /\ WithinBounds
    \/ \E id \in 1..Len(purchase_orders) : submit_po_for_approval(id)
    \/ \E id \in 1..Len(purchase_orders), c \in Comments :
          approve_po(id, "alice", c)
    \/ \E id \in 1..Len(purchase_orders) :
          create_goods_receipt(id) /\ WithinBounds
    \/ \E id \in 1..Len(goods_receipts), c \in Checkers :
          perform_quality_check(id, c, TRUE)
    \/ \E po \in 1..Len(purchase_orders), gr \in 1..Len(goods_receipts),
          v \in VendorIds, a \in Amounts :
          create_invoice(po, gr, v, "Immediate", a, 0) /\ WithinBounds
    \/ \E id \in 1..Len(purchase_orders) : block_po(id, "hold")
    \/ \E id \in 1..Len(invoices) : block_invoice(id, "hold")
    \/ \E id \in 1..Len(invoices) : unblock_invoice(id)
    \/ build_graph_from_workflow /\ WithinBounds
    \/ generate_comprehensive_report

GraphSpec == Init /\ [][GraphNext]_vars

\* The vendor risk scores of a graph built once, by a new graph object,
\* from the documents two vendors' orders leave: with no policy registered
\* a submitted document is approved at once; receipts pass or fail their
\* quality check; invoices fall overdue; POs and invoices are blocked.
RiskVendors == {"V1", "V2"}

RiskBounds ==
    /\ Len(purchase_orders') <= MaxDocs
    /\ Len(goods_receipts') <= MaxDocs
    /\ Len(invoices') <= MaxInv

\* the calls below come before the build
Unbuilt == graph = EmptyGraph

RiskNext ==
    \/ \E v \in RiskVendors, a \in Amounts, t \in POTerms :
          Unbuilt /\ create_purchase_order(v, a, t) /\ RiskBounds
    \/ \E id \in 1..Len(purchase_orders) :
          Unbuilt /\ submit_po_for_approval(id)
    \/ \E id \in 1..Len(purchase_orders) :
          Unbuilt /\ create_goods_receipt(id) /\ RiskBounds
    \/ \E id \in 1..Len(goods_receipts), c \in Checkers, passed \in BOOLEAN :
          Unbuilt /\ perform_quality_check(id, c, passed)
    \/ \E po \in 1..Len(purchase_orders), gr \in 1..Len(goods_receipts),
          v \in RiskVendors, a \in Amounts :
          Unbuilt /\ create_invoice(po, gr, v, "Immediate", a, 0)
                  /\ RiskBounds
    \/ \E id \in 1..Len(invoices) :
          Unbuilt /\ submit_invoice_for_approval(id)
    \/ Unbuilt /\ check_overdue_invoices(30)
    \/ \E id \in 1..Len(purchase_orders) : Unbuilt /\ block_po(id, "hold")
    \/ \E id \in 1..Len(invoices) : Unbuilt /\ block_invoice(id, "hold")
    \/ Unbuilt /\ build_graph_from_workflow
    \/ ~Unbuilt /\ call_calculate_vendor_risk_scores

RiskSpec == Init /\ [][RiskNext]_vars

\* The three-way match of a graph built once from the documents of one
\* vendor: POs with no line item or of 100, approved with no policy,
\* received and accepted; invoices within, at and beyond 5% of 100; the
\* goods receipt blocked after it was invoiced.
MatchPOAmounts == {0, 100}
MatchInvoiceAmounts == {94, 104, 105, 106}

MatchBounds ==
    /\ Len(purchase_orders') <= MaxDocs
    /\ Len(goods_receipts') <= MaxPO
    /\ Len(invoices') <= MaxDocs

MatchNext ==
    \/ \E v \in VendorIds, a \in MatchPOAmounts, t \in POTerms :
          Unbuilt /\ create_purchase_order(v, a, t) /\ MatchBounds
    \/ \E id \in 1..Len(purchase_orders) :
          Unbuilt /\ submit_po_for_approval(id)
    \/ \E id \in 1..Len(purchase_orders) :
          Unbuilt /\ create_goods_receipt(id) /\ MatchBounds
    \/ \E id \in 1..Len(goods_receipts), c \in Checkers :
          Unbuilt /\ perform_quality_check(id, c, TRUE)
    \/ \E po \in 1..Len(purchase_orders), gr \in 1..Len(goods_receipts),
          v \in VendorIds, a \in MatchInvoiceAmounts :
          Unbuilt /\ create_invoice(po, gr, v, "Immediate", a, 0)
                  /\ MatchBounds
    \/ \E id \in 1..Len(goods_receipts) : Unbuilt /\ block_gr(id, "hold")
    \/ Unbuilt /\ build_graph_from_workflow
    \/ ~Unbuilt /\ call_detect_three_way_match_issues

MatchSpec == Init /\ [][MatchNext]_vars

\* The approval delays of a graph built once from POs and an invoice at
\* and just above 10000, under a policy of three approvers or under none,
\* with approvals given in any order and documents blocked at any point.
DelayAmounts == {10000, 10001}
DelayPolicies == {q \in PolicyChoices : Len(q.required_approvers) = 3}

DelayBounds ==
    /\ Len(purchase_orders') <= MaxDocs
    /\ Len(goods_receipts') <= MaxPO
    /\ Len(invoices') <= MaxInv

DelayNext ==
    \/ \E p \in DelayPolicies :
          Unbuilt /\ Len(approval_policies) < MaxPolicies
                  /\ add_approval_policy(p)
    \/ \E v \in VendorIds, a \in DelayAmounts, t \in POTerms :
          Unbuilt /\ create_purchase_order(v, a, t) /\ DelayBounds
    \/ \E id \in 1..Len(purchase_orders) :
          Unbuilt /\ submit_po_for_approval(id)
    \/ \E id \in 1..Len(purchase_orders), who \in Approvers, c \in Comments :
          Unbuilt /\ approve_po(id, who, c)
    \/ \E id \in 1..Len(purchase_orders) :
          Unbuilt /\ create_goods_receipt(id) /\ DelayBounds
    \/ \E id \in 1..Len(goods_receipts), c \in Checkers :
          Unbuilt /\ perform_quality_check(id, c, TRUE)
    \/ \E po \in 1..Len(purchase_orders), gr \in 1..Len(goods_receipts),
          v \in RiskVendors, a \in DelayAmounts :
          Unbuilt /\ create_invoice(po, gr, v, "Immediate", a, 0)
                  /\ DelayBounds
    \/ \E id \in 1..Len(invoices) :
          Unbuilt /\ submit_invoice_for_approval(id)
    \/ \E id \in 1..Len(invoices), who \in Approvers, c \in Comments :
          Unbuilt /\ approve_invoice(id, who, c)
    \/ \E id \in 1..Len(purchase_orders) : Unbuilt /\ block_po(id, "hold")
    \/ Unbuilt /\ build_graph_from_workflow
    \/ ~Unbuilt /\ call_predict_approval_delays

DelaySpec == Init /\ [][DelayNext]_vars

\* The fraud patterns of a graph built once from the invoices one vendor
\* sends against one accepted goods receipt: amounts of nothing, of 1, and
\* every whole amount that takes all the significand bits of a float (the
\* odd ones of that length); each invoice may be blocked.
FraudAmounts ==
    {0, 1} \cup {a \in Pow2(MantissaBits - 1)..(Pow2(MantissaBits) - 1) :
                   a % 2 = 1}

FraudBounds ==
    /\ Len(purchase_orders') <= MaxPO
    /\ Len(goods_receipts') <= MaxPO
    /\ Len(invoices') <= MaxFraudInvoices

FraudNext ==
    \/ \E v \in VendorIds, a \in Amounts, t \in POTerms :
          Unbuilt /\ create_purchase_order(v, a, t) /\ FraudBounds
    \/ \E id \in 1..Len(purchase_orders) :
          Unbuilt /\ submit_po_for_approval(id)
    \/ \E id \in 1..Len(purchase_orders) :
          Unbuilt /\ create_goods_receipt(id) /\ FraudBounds
    \/ \E id \in 1..Len(goods_receipts), c \in Checkers :
          Unbuilt /\ perform_quality_check(id, c, TRUE)
    \/ \E po \in 1..Len(purchase_orders), gr \in 1..Len(goods_receipts),
          v \in VendorIds, a \in FraudAmounts :
          Unbuilt /\ create_invoice(po, gr, v, "Immediate", a, 0)
                  /\ FraudBounds
    \/ \E id \in 1..Len(invoices) : Unbuilt /\ block_invoice(id, "hold")
    \/ Unbuilt /\ build_graph_from_workflow
    \/ \E now \in Times : ~Unbuilt /\ call_detect_fraud_patterns(now)

FraudSpec == Init /\ [][FraudNext]_vars

\* ------------------------------------------------- vocabulary of the claims
Other == <<goods_receipts, invoices, approval_policies>>

SeqRange(seq) == {seq[i] : i \in 1..Len(seq)}

Distinct(seq) ==
    \A i, j \in 1..Len(seq) : seq[i] = seq[j] => i = j

\* the approvers a list of records shows in a given status
Holders(approvals, status) ==
    {approvals[i].approver :
        i \in {k \in 1..Len(approvals) : approvals[k].status = status}}

\* k is the first record of the approver that is still Pending
IsFirstPendingOf(approvals, approver, k) ==
    /\ k \in 1..Len(approvals)
    /\ approvals[k].approver = approver
    /\ approvals[k].status = "Pending"
    /\ \A i \in 1..(k - 1) :
          ~(approvals[i].approver = approver /\ approvals[i].status = "Pending")

\* the policies of the list whose range holds the amount
Covering(amount) ==
    {approval_policies[i] : i \in
        {k \in 1..Len(approval_policies) :
            /\ approval_policies[k].min_amount <= amount
            /\ amount <= approval_policies[k].max_amount}}

\* ------------------------------------------------------------------ C1
PendingUnderDistinct(po) ==
    /\ po.status = "Pending Approval"
    /\ Len(po.applicable_policy.required_approvers) >= 1
    /\ Distinct(po.applicable_policy.required_approvers)

C1_Incomplete ==
    \A id \in 1..Len(purchase_orders) :
        PendingUnderDistinct(purchase_orders[id]) =>
            Holders(purchase_orders[id].approvals, "Approved")
                # SeqRange(purchase_orders[id].applicable_policy
                              .required_approvers)

C1_Step(id, who, c) ==
    (/\ HasPO(id)
     /\ PendingUnderDistinct(purchase_orders[id])
     /\ approve_po(id, who, c))
    => LET po == purchase_orders[id]
           required == SeqRange(po.applicable_policy.required_approvers)
           approved == (Holders(po.approvals, "Approved") \cup {who})
                          \cap required
       IN /\ Holders(purchase_orders'[id].approvals, "Approved") = approved
          /\ purchase_orders'[id].status =
                IF approved = required THEN "Approved" ELSE "Pending Approval"

\* C1: a PO pending under a policy with N >= 1 distinct required approvers
\* is Pending Approval as long as fewer than N of them have approved, and
\* an approve_po call makes it Approved exactly when, with that call, all N
\* have approved; repeated and unlisted approvers change nothing.
C1_ApprovedOnNth ==
    /\ []C1_Incomplete
    /\ [][\A id \in PoIds, who \in Approvers, c \in Comments :
             C1_Step(id, who, c)]_vars

C1_Witness ==
    \E id \in 1..Len(purchase_orders) :
        LET po == purchase_orders[id]
        IN /\ po.status = "Approved"
           /\ po.applicable_policy.required_approvers = <<"alice", "bob">>
           /\ Holders(po.approvals, "Approved") = {"alice", "bob"}
           /\ ret = "True"

\* ------------------------------------------------------------------ C2
C2_Step(id, who, c) ==
    reject_po(id, who, c) =>
        IF ~HasPO(id) \/ purchase_orders[id].status # "Pending Approval"
        THEN /\ ret' = "False"
             /\ UNCHANGED <<purchase_orders, Other>>
        ELSE LET po == purchase_orders[id]
                 after == purchase_orders'[id]
             IN /\ ret' = "True"
                /\ after.status = "Rejected"
                /\ Len(after.approvals) = Len(po.approvals)
                /\ \A i \in 1..Len(po.approvals) :
                      after.approvals[i] =
                         IF IsFirstPendingOf(po.approvals, who, i)
                         THEN [po.approvals[i] EXCEPT !.status = "Rejected",
                                                      !.comments = c]
                         ELSE po.approvals[i]

\* C2: reject_po returns False and changes nothing unless the PO exists and
\* is Pending Approval; otherwise it marks the approver's first Pending
\* record Rejected, leaves every other record as it is, and sets the PO to
\* Rejected at once.
C2_RejectIsFinal ==
    [][\A id \in PoIds, who \in Approvers, c \in Comments :
          C2_Step(id, who, c)]_vars

C2_Witness ==
    \E id \in 1..Len(purchase_orders) :
        LET po == purchase_orders[id]
        IN /\ po.status = "Rejected"
           /\ Holders(po.approvals, "Approved") = {"alice"}
           /\ Holders(po.approvals, "Rejected") = {"bob"}
           /\ ret = "True"

\* ------------------------------------------------------------------ C3
C3_Step(id) ==
    submit_po_for_approval(id) =>
        IF ~HasPO(id) \/ purchase_orders[id].status # "Draft"
        THEN ret' = "False"
        ELSE LET po == purchase_orders[id]
                 after == purchase_orders'[id]
                 required == after.applicable_policy.required_approvers
             IN /\ ret' = "True"
                /\ IF Covering(po.total_amount) = {}
                   THEN /\ after.status = "Approved"
                        /\ after.approvals = <<>>
                   ELSE /\ after.status = "Pending Approval"
                        /\ after.applicable_policy
                              \in Covering(po.total_amount)
                        /\ after.approvals =
                              [i \in 1..Len(required) |->
                                  [approver |-> required[i],
                                   status |-> "Pending", comments |-> ""]]

\* C3: submit_po_for_approval returns False unless the PO exists and is
\* Draft; on a Draft PO it sets Approved with no approval records when no
\* policy covers the total, and otherwise Pending Approval with exactly one
\* Pending record per required approver of the matched policy, in order.
C3_SubmitRoutes ==
    [][\A id \in PoIds : C3_Step(id)]_vars

C3_Witness ==
    \E id \in 1..Len(purchase_orders) :
        LET po == purchase_orders[id]
        IN /\ po.status = "Pending Approval"
           /\ Len(po.approvals) = 2
           /\ po.approvals[1].approver = "alice"
           /\ po.approvals[2].approver = "bob"
           /\ Holders(po.approvals, "Pending") = {"alice", "bob"}
           /\ ret = "True"

\* ------------------------------------------------------------------ C4
GRsOf(po_id) ==
    {g \in 1..Len(goods_receipts) : goods_receipts[g].po_id = po_id}

C4_AtMostOne ==
    \A id \in 1..Len(purchase_orders) :
        /\ Cardinality(GRsOf(id)) <= 1
        /\ GRsOf(id) # {} => purchase_orders[id].status # "Approved"

C4_Step(id) ==
    (create_goods_receipt(id) /\ ret' = "GR")
    => LET n == Len(goods_receipts)
       IN /\ HasPO(id)
          /\ purchase_orders[id].status = "Approved"
          /\ purchase_orders'[id].status = "In Progress"
          /\ Len(goods_receipts') = n + 1
          /\ SubSeq(goods_receipts', 1, n) = goods_receipts
          /\ goods_receipts'[n + 1].po_id = id
          /\ goods_receipts'[n + 1].status = "Received"

\* C4: a successful create_goods_receipt stores a GR in Received status
\* and moves its PO from Approved to In Progress; a PO that has a goods
\* receipt is never Approved again, so no PO is referenced by two goods
\* receipts.
C4_OneReceiptPerPO ==
    /\ []C4_AtMostOne
    /\ [][\A id \in PoIds : C4_Step(id)]_vars

C4_Witness ==
    \E g \in 1..Len(goods_receipts) :
        /\ goods_receipts[g].status = "Received"
        /\ purchase_orders[goods_receipts[g].po_id].status = "In Progress"
        /\ ret = "GR"

\* ------------------------------------------------------------------ C5
C5_Step(id, checker, passed) ==
    perform_quality_check(id, checker, passed) =>
        IF ~HasGR(id) \/ goods_receipts[id].status # "Received"
        THEN /\ ret' = "False"
             /\ UNCHANGED <<purchase_orders, goods_receipts, invoices,
                            approval_policies>>
        ELSE LET parent == goods_receipts[id].po_id
                 all_accepted ==
                    \A g \in 1..Len(goods_receipts') :
                        goods_receipts'[g].po_id = parent
                           => goods_receipts'[g].status = "Accepted"
             IN /\ ret' = "True"
                /\ Len(goods_receipts') = Len(goods_receipts)
                /\ goods_receipts'[id].status =
                      IF passed THEN "Accepted" ELSE "Rejected"
                /\ \A g \in 1..Len(goods_receipts) :
                      g # id => goods_receipts'[g] = goods_receipts[g]
                /\ Len(purchase_orders') = Len(purchase_orders)
                /\ \A p \in 1..Len(purchase_orders) :
                      purchase_orders'[p].status =
                         IF p = parent /\ passed /\ all_accepted
                         THEN "Completed"
                         ELSE purchase_orders[p].status

\* C5: perform_quality_check returns False and changes nothing unless the
\* GR exists and is Received; otherwise the GR becomes Accepted (passed) or
\* Rejected (not passed), and the parent PO becomes Completed exactly when
\* passed is true and every GR of that PO is Accepted; no other PO status
\* changes, and none at all when passed is false.
C5_QualityCheck ==
    [][\A id \in GrIds, c \in Checkers, passed \in BOOLEAN :
          C5_Step(id, c, passed)]_vars

C5_Witness ==
    \E g \in 1..Len(goods_receipts) :
        /\ goods_receipts[g].status = "Rejected"
        /\ goods_receipts[g].quality_checked
        /\ purchase_orders[goods_receipts[g].po_id].status = "In Progress"
        /\ ret = "True"

\* ------------------------------------------------------------------ C6
\* C6: a PO that is Blocked stays Blocked under every workflow operation.
C6_BlockedIsTerminal ==
    [][\A id \in 1..Len(purchase_orders) :
          purchase_orders[id].status = "Blocked"
             => purchase_orders'[id].status = "Blocked"]_vars

\* ------------------------------------------------------------------ C7
C7_Step(po_id, gr_id, terms, total, now) ==
    (\E v \in VendorIds : create_invoice(po_id, gr_id, v, terms, total, now))
    =>
        IF \/ ~HasPO(po_id)
           \/ ~HasGR(gr_id)
           \/ goods_receipts[gr_id].status # "Accepted"
        THEN /\ ret' = "None"
             /\ invoices' = invoices
        ELSE LET n == Len(invoices)
             IN /\ ret' = "Invoice"
                /\ Len(invoices') = n + 1
                /\ SubSeq(invoices', 1, n) = invoices
                /\ invoices'[n + 1].status = "Draft"
                /\ invoices'[n + 1].payment_terms =
                      IF terms = "None"
                      THEN purchase_orders[po_id].payment_terms
                      ELSE terms

\* C7: create_invoice returns None and adds no invoice unless the PO id and
\* the GR id both exist and the GR is Accepted; on success the new invoice
\* is Draft and carries the given payment terms, or the PO's when none are
\* given.
C7_InvoiceNeedsAcceptedGR ==
    [][\A po_id \in PoIds, gr_id \in GrIds, terms \in InvoiceTerms,
          total \in Amounts, now \in InvoiceDates :
          C7_Step(po_id, gr_id, terms, total, now)]_vars

C7_Witness ==
    \E i \in 1..Len(invoices) :
        /\ invoices[i].status = "Draft"
        /\ invoices[i].payment_terms
              = purchase_orders[invoices[i].po_id].payment_terms
        /\ invoices[i].approvals = <<>>
        /\ ret = "Invoice"

\* ------------------------------------------------------------------ C8
PendingRecordsOf(approvals, approver) ==
    {i \in 1..Len(approvals) :
        approvals[i].approver = approver /\ approvals[i].status = "Pending"}

C8_Step(id) ==
    (/\ HasInvoice(id)
     /\ invoices[id].status = "Draft"
     /\ Covering(invoices[id].total_amount) # {}
     /\ submit_invoice_for_approval(id))
    => LET after == invoices'[id]
           required == after.applicable_policy.required_approvers
       IN /\ after.status = "Pending Approval"
          /\ \A who \in SeqRange(required) :
                Cardinality(PendingRecordsOf(after.approvals, who)) = 1

\* C8: after every successful policy-routed submit_invoice_for_approval,
\* the first and any later one, the invoice is Pending Approval with one
\* Pending record per required approver, so that one approve_invoice call
\* by each of them makes it Approved.
C8_OnePendingPerApprover ==
    [][\A id \in InvoiceIds : C8_Step(id)]_vars

\* ------------------------------------------------------------------ C9
C9_Step(id) ==
    pay_invoice(id) =>
        IF HasInvoice(id) /\ invoices[id].status = "Approved"
        THEN /\ ret' = "True"
             /\ invoices' =
                   [invoices EXCEPT ![id].status = "Paid",
                                    ![id].payment_date = "now"]
        ELSE /\ ret' = "False"
             /\ invoices' = invoices

\* C9: pay_invoice returns True if and only if the invoice exists and is
\* Approved, and then sets it Paid and stamps payment_date; from every
\* other status it returns False and leaves the invoice as it is.
C9_PayOnlyApproved ==
    [][\A id \in InvoiceIds : C9_Step(id)]_vars

C9_Witness ==
    \E i \in 1..Len(invoices) :
        /\ invoices[i].status = "Paid"
        /\ invoices[i].payment_date = "now"
        /\ ret = "True"

\* ----------------------------------------------------------------- C10
C10_Step(id, reason) ==
    /\ block_po(id, reason) =>
          /\ UNCHANGED <<goods_receipts, invoices, approval_policies>>
          /\ IF HasPO(id)
             THEN /\ ret' = "True"
                  /\ purchase_orders' =
                        [purchase_orders EXCEPT
                            ![id] = [@ EXCEPT !.status = "Blocked",
                                              !.blocked_reason = reason]]
             ELSE /\ ret' = "False"
                  /\ purchase_orders' = purchase_orders
    /\ block_gr(id, reason) =>
          /\ UNCHANGED <<purchase_orders, invoices, approval_policies>>
          /\ IF HasGR(id)
             THEN /\ ret' = "True"
                  /\ goods_receipts' =
                        [goods_receipts EXCEPT
                            ![id] = [@ EXCEPT !.status = "Blocked",
                                              !.blocked_reason = reason]]
             ELSE /\ ret' = "False"
                  /\ goods_receipts' = goods_receipts
    /\ block_invoice(id, reason) =>
          /\ UNCHANGED <<purchase_orders, goods_receipts, approval_policies>>
          /\ IF HasInvoice(id)
             THEN /\ ret' = "True"
                  /\ invoices' =
                        [invoices EXCEPT
                            ![id] = [@ EXCEPT !.status = "Blocked",
                                              !.blocked_reason = reason]]
             ELSE /\ ret' = "False"
                  /\ invoices' = invoices

\* C10: block_po, block_gr and block_invoice on an existing document set
\* its status to Blocked and its blocked_reason to the given text whatever
\* its status was, and return True; on an unknown id they return False;
\* they change nothing else.
C10_BlockOverrides ==
    [][\A id \in PoIds \cup GrIds \cup InvoiceIds, reason \in Reasons :
          C10_Step(id, reason)]_vars

C10_Witness ==
    \E i \in 1..Len(invoices) :
        /\ invoices[i].status = "Blocked"
        /\ invoices[i].payment_date = "now"
        /\ invoices[i].blocked_reason = "fraud"
        /\ ret = "True"

\* ----------------------------------------------------------------- C11
C11_Step(id) ==
    unblock_invoice(id) =>
        /\ UNCHANGED <<purchase_orders, goods_receipts, approval_policies>>
        /\ ret' = IF HasInvoice(id) THEN "True" ELSE "False"
        /\ IF HasInvoice(id) /\ invoices[id].status = "Blocked"
           THEN /\ invoices' # invoices
                /\ invoices' =
                      [invoices EXCEPT ![id] = [@ EXCEPT !.status = "Draft",
                                                        !.blocked_reason = ""]]
           ELSE invoices' = invoices

\* C11: unblock_invoice changes an invoice if and only if its status is
\* Blocked: a Blocked invoice becomes Draft with an empty blocked_reason
\* and nothing else of it changes; an invoice in any other status keeps its
\* status, reason and approval records.
C11_UnblockOnlyBlocked ==
    [][\A id \in InvoiceIds : C11_Step(id)]_vars

\* an unblocked invoice: Draft with the records of its earlier submission
C11_Witness ==
    \E i \in 1..Len(invoices) :
        /\ invoices[i].status = "Draft"
        /\ invoices[i].approvals # <<>>
        /\ invoices[i].blocked_reason = ""
        /\ ret = "True"

\* ----------------------------------------------------------------- C12
\* the id names no stored document, or one whose status is not the wanted
NotIn(docs, id, status) ==
    id \notin 1..Len(docs) \/ docs[id].status # status

Unknown(docs, id) == id \notin 1..Len(docs)

\* the call returned the failure value and no map or document changed
Refused(value) ==
    /\ ret' = value
    /\ UNCHANGED <<purchase_orders, goods_receipts, invoices,
                   approval_policies>>

\* the step is a call, with an unknown id or on a document in the wrong
\* status, of a mutator that reports failure as False
C12_FailingBool ==
    \/ \E id \in PoIds, who \in Approvers, c \in Comments :
          \/ NotIn(purchase_orders, id, "Draft")
                /\ submit_po_for_approval(id)
          \/ NotIn(purchase_orders, id, "Pending Approval")
                /\ approve_po(id, who, c)
          \/ NotIn(purchase_orders, id, "Pending Approval")
                /\ reject_po(id, who, c)
    \/ \E id \in GrIds, checker \in Checkers, passed \in BOOLEAN :
          NotIn(goods_receipts, id, "Received")
             /\ perform_quality_check(id, checker, passed)
    \/ \E id \in InvoiceIds, who \in Approvers, c \in Comments :
          \/ NotIn(invoices, id, "Draft") /\ submit_invoice_for_approval(id)
          \/ NotIn(invoices, id, "Pending Approval")
                /\ approve_invoice(id, who, c)
          \/ NotIn(invoices, id, "Approved") /\ pay_invoice(id)
    \/ \E id \in PoIds \cup GrIds \cup InvoiceIds, reason \in Reasons :
          \/ Unknown(purchase_orders, id) /\ block_po(id, reason)
          \/ Unknown(goods_receipts, id) /\ block_gr(id, reason)
          \/ Unknown(invoices, id) /\ block_invoice(id, reason)
          \/ Unknown(invoices, id) /\ unblock_invoice(id)

\* the same for the two mutators that report failure as None
C12_FailingCreate ==
    \/ \E id \in PoIds :
          NotIn(purchase_orders, id, "Approved") /\ create_goods_receipt(id)
    \/ \E po \in PoIds, gr \in GrIds, v \in VendorIds,
          terms \in InvoiceTerms, total \in Amounts, now \in InvoiceDates :
          (Unknown(purchase_orders, po)
             \/ NotIn(goods_receipts, gr, "Accepted"))
          /\ create_invoice(po, gr, v, terms, total, now)

\* C12: every workflow mutator called with an unknown id, or on a document
\* in the wrong status (submit on a non-Draft document, approve or reject
\* on one not Pending Approval, create_goods_receipt on a non-Approved PO,
\* quality check on a non-Received GR, create_invoice on a non-Accepted GR,
\* pay on a non-Approved invoice), returns False or None and leaves the
\* three document maps and every stored document unchanged.
C12_FailuresChangeNothing ==
    [][/\ Refused("False") \/ ~C12_FailingBool
       /\ Refused("None") \/ ~C12_FailingCreate]_vars

\* a call was refused while every map holds a document past its first
\* status
C12_Witness ==
    /\ ret = "False"
    /\ \E p \in 1..Len(purchase_orders) :
          purchase_orders[p].status = "Completed"
    /\ \E g \in 1..Len(goods_receipts) :
          goods_receipts[g].status = "Accepted"
    /\ \E i \in 1..Len(invoices) : invoices[i].status = "Paid"

\* ----------------------------------------------------------------- C13
C13_Step(a) ==
    lookup_policy(a) =>
        IF Covering(a) = {}
        THEN ret' = "None"
        ELSE \E p \in Covering(a) :
                /\ ret' = p.name
                /\ \A q \in Covering(a) : q.min_amount <= p.min_amount

\* C13: for every list of policies added in any order and every amount a,
\* get_applicable_policy(a) returns None if and only if no policy has
\* min_amount <= a <= max_amount, and otherwise returns a covering policy
\* whose min_amount is the greatest among the covering policies.
C13_HighestMinWins ==
    [][\A a \in LookupAmounts : C13_Step(a)]_vars

\* three policies cover the amount 2, and the lookup returned the one with
\* the greatest min_amount
C13_Witness ==
    /\ {approval_policies[i].name : i \in 1..Len(approval_policies)}
          = {"Low", "Mid", "High"}
    /\ ret = "High"

\* ----------------------------------------------------------------- C14
\* some policy covers the amount and every covering policy names exactly
\* one approver
OneApprover(amount) ==
    /\ Covering(amount) # {}
    /\ \A q \in Covering(amount) : Len(q.required_approvers) = 1

\* one Pending record, of the one approver of the matched policy
OnePending(doc) ==
    /\ Len(doc.applicable_policy.required_approvers) = 1
    /\ doc.approvals =
          <<[approver |-> doc.applicable_policy.required_approvers[1],
             status |-> "Pending", comments |-> ""]>>

\* the states the lifecycle passes through, by the step last taken
PO_Created(p) ==
    /\ p \in 1..Len(purchase_orders)
    /\ purchase_orders[p].status = "Draft"
    /\ purchase_orders[p].approvals = <<>>
    /\ OneApprover(purchase_orders[p].total_amount)
    /\ GRsOf(p) = {}

PO_Submitted(p) ==
    /\ p \in 1..Len(purchase_orders)
    /\ purchase_orders[p].status = "Pending Approval"
    /\ OnePending(purchase_orders[p])
    /\ GRsOf(p) = {}

PO_Approved(p) ==
    /\ p \in 1..Len(purchase_orders)
    /\ purchase_orders[p].status = "Approved"
    /\ GRsOf(p) = {}

GR_Created(p, g) ==
    /\ p \in 1..Len(purchase_orders)
    /\ purchase_orders[p].status = "In Progress"
    /\ GRsOf(p) = {g}
    /\ goods_receipts[g].status = "Received"

GR_Checked(p, g) ==
    /\ p \in 1..Len(purchase_orders)
    /\ purchase_orders[p].status = "Completed"
    /\ GRsOf(p) = {g}
    /\ goods_receipts[g].status = "Accepted"

Inv_Created(p, g, i) ==
    /\ i \in 1..Len(invoices)
    /\ invoices[i].po_id = p
    /\ invoices[i].gr_id = g
    /\ invoices[i].status = "Draft"
    /\ invoices[i].approvals = <<>>

Inv_Submitted(i) ==
    /\ i \in 1..Len(invoices)
    /\ invoices[i].status = "Pending Approval"
    /\ OnePending(invoices[i])

Inv_Approved(i) ==
    /\ i \in 1..Len(invoices)
    /\ invoices[i].status = "Approved"

Inv_Paid(i) ==
    /\ i \in 1..Len(invoices)
    /\ invoices[i].status = "Paid"

C14_PO(p, total, terms, c) ==
    /\ (/\ p = Len(purchase_orders) + 1
        /\ OneApprover(total)
        /\ \E v \in VendorIds : create_purchase_order(v, total, terms))
          => ret' = "PO" /\ PO_Created(p)'
    /\ (PO_Created(p) /\ submit_po_for_approval(p))
          => ret' = "True" /\ PO_Submitted(p)'
    /\ (PO_Submitted(p)
          /\ approve_po(p, purchase_orders[p].approvals[1].approver, c))
          => ret' = "True" /\ PO_Approved(p)'

C14_GR(p, g, checker) ==
    /\ (/\ g = Len(goods_receipts) + 1
        /\ PO_Approved(p)
        /\ create_goods_receipt(p))
          => ret' = "GR" /\ GR_Created(p, g)'
    /\ (GR_Created(p, g) /\ perform_quality_check(g, checker, TRUE))
          => ret' = "True" /\ GR_Checked(p, g)'

C14_Create(p, g, i, terms, total, now) ==
    (/\ i = Len(invoices) + 1
     /\ GR_Checked(p, g)
     /\ \E v \in VendorIds : create_invoice(p, g, v, terms, total, now))
       => ret' = "Invoice" /\ Inv_Created(p, g, i)'

C14_Invoice(i, c) ==
    /\ (/\ i \in 1..Len(invoices)
        /\ invoices[i].status = "Draft"
        /\ invoices[i].approvals = <<>>
        /\ OneApprover(invoices[i].total_amount)
        /\ submit_invoice_for_approval(i))
          => ret' = "True" /\ Inv_Submitted(i)'
    /\ (Inv_Submitted(i)
          /\ approve_invoice(i, invoices[i].approvals[1].approver, c))
          => ret' = "True" /\ Inv_Approved(i)'
    /\ (Inv_Approved(i) /\ pay_invoice(i))
          => /\ ret' = "True"
             /\ Inv_Paid(i)'
             /\ total_spend(invoices') =
                   total_spend(invoices) + invoices[i].total_amount

\* C14: on a PO covered by a one-approver policy each step of the
\* lifecycle, taken from the state the step before it left, succeeds and
\* leaves the next state of the lifecycle: create PO gives Draft, submit
\* Pending Approval, approve by the approver Approved, create GR In
\* Progress, a passed quality check Completed; create invoice gives an
\* invoice in Draft, submit Pending Approval, approve Approved, pay Paid,
\* and total_spend then grows by the total of that invoice.
C14_Lifecycle ==
    [][/\ \A p \in PoIds, total \in Amounts, terms \in POTerms,
             c \in Comments : C14_PO(p, total, terms, c)
       /\ \A p \in PoIds, g \in GrIds, checker \in Checkers :
             C14_GR(p, g, checker)
       /\ \A p \in PoIds : \A g \in GRsOf(p), i \in InvoiceIds,
             terms \in InvoiceTerms, total \in Amounts,
             now \in InvoiceDates : C14_Create(p, g, i, terms, total, now)
       /\ \A i \in InvoiceIds, c \in Comments : C14_Invoice(i, c)]_vars

\* the end of the lifecycle: the PO Completed through its one accepted GR,
\* the invoice approved once by the one approver and Paid, and counted
C14_Witness ==
    \E p \in 1..Len(purchase_orders), i \in 1..Len(invoices) :
        /\ purchase_orders[p].status = "Completed"
        /\ Len(purchase_orders[p].approvals) = 1
        /\ purchase_orders[p].approvals[1].status = "Approved"
        /\ invoices[i].po_id = p
        /\ goods_receipts[invoices[i].gr_id].status = "Accepted"
        /\ invoices[i].status = "Paid"
        /\ Len(invoices[i].approvals) = 1
        /\ invoices[i].approvals[1].status = "Approved"
        /\ total_spend(invoices) = invoices[i].total_amount
        /\ ret = "True"

\* ----------------------------------------------------------------- C15
C15_Step(now) ==
    check_overdue_invoices(now) =>
        /\ UNCHANGED <<purchase_orders, goods_receipts, approval_policies>>
        /\ Len(invoices') = Len(invoices)
        /\ \A i \in 1..Len(invoices) :
              invoices'[i] =
                 IF invoices[i].status = "Approved"
                       /\ invoices[i].due_date < now
                 THEN [invoices[i] EXCEPT !.status = "Overdue"]
                 ELSE invoices[i]

\* C15: check_overdue_invoices sets to Overdue exactly the invoices that
\* are Approved and whose due_date is before now, and changes nothing else
\* of them; every invoice in another status, or whose due_date has not
\* passed, is left as it is, and so are all POs and GRs.
C15_OverdueOnlyApprovedPastDue ==
    [][\A now \in Times : C15_Step(now)]_vars

C15_Witness ==
    \E i \in 1..Len(invoices) :
        /\ invoices[i].status = "Overdue"
        /\ invoices[i].due_date < 30
        /\ ret = "None"

\* ----------------------------------------------------------------- C17
C17_Step(id, who, c) ==
    (/\ id \in 1..Len(purchase_orders)
     /\ purchase_orders[id].status = "Pending Approval"
     /\ \/ who \notin SeqRange(purchase_orders[id].applicable_policy
                                    .required_approvers)
        \/ who \in Holders(purchase_orders[id].approvals, "Approved")
     /\ approve_po(id, who, c))
    => /\ ret' = "True"
       /\ purchase_orders'[id].status = purchase_orders[id].status
       /\ purchase_orders'[id].approvals = purchase_orders[id].approvals

\* C17: for a PO that is Pending Approval under a policy with any number
\* N >= 0 of required approvers, approve_po by an approver who is not in
\* the required list, or who has already approved, returns True and
\* leaves the status of the PO and every approval record unchanged.
C17_StrangerChangesNothing ==
    [][\A id \in PoIds, who \in Approvers, c \in Comments :
          C17_Step(id, who, c)]_vars

\* ----------------------------------------------------------------- C18
\* C18: every PO, goods receipt and invoice whose status is not Blocked
\* has an empty blocked_reason.
C18_ReasonOnlyWhenBlocked ==
    /\ \A p \in 1..Len(purchase_orders) :
          purchase_orders[p].status # "Blocked"
             => purchase_orders[p].blocked_reason = ""
    /\ \A g \in 1..Len(goods_receipts) :
          goods_receipts[g].status # "Blocked"
             => goods_receipts[g].blocked_reason = ""
    /\ \A i \in 1..Len(invoices) :
          invoices[i].status # "Blocked" => invoices[i].blocked_reason = ""

\* ----------------------------------------------------------------- C16
\* every reference of a stored document names a stored document
C16_Closed ==
    /\ \A g \in 1..Len(goods_receipts) :
          goods_receipts[g].po_id \in 1..Len(purchase_orders)
    /\ \A i \in 1..Len(invoices) :
          /\ invoices[i].po_id \in 1..Len(purchase_orders)
          /\ invoices[i].gr_id \in 1..Len(goods_receipts)

\* the graph a new P2PKnowledgeGraph builds from the documents as they are
FreshGraph ==
    BuildGraph(EmptyGraph, purchase_orders, goods_receipts, invoices)

C16_NoMissingReference ==
    LET found == detect_three_way_match_issues(FreshGraph).issues
    IN \A k \in 1..Len(found) :
          found[k].issue # "Missing PO or GR reference"

\* no map loses a document, and no document changes what it refers to
C16_AppendOnly ==
    /\ Len(purchase_orders') >= Len(purchase_orders)
    /\ Len(goods_receipts') >= Len(goods_receipts)
    /\ Len(invoices') >= Len(invoices)
    /\ \A g \in 1..Len(goods_receipts) :
          goods_receipts'[g].po_id = goods_receipts[g].po_id
    /\ \A i \in 1..Len(invoices) :
          /\ invoices'[i].po_id = invoices[i].po_id
          /\ invoices'[i].gr_id = invoices[i].gr_id

\* C16: no operation removes a document from its map; every goods
\* receipt's po_id names a stored PO and every invoice's po_id and gr_id
\* name a stored PO and a stored GR; so a graph built from any reachable
\* state yields no 'Missing PO or GR reference' issue.
C16_AppendOnlyAndClosed ==
    /\ []C16_Closed
    /\ []C16_NoMissingReference
    /\ [][C16_AppendOnly]_vars

\* an invoice is stored, and the graph built from the documents links it
\* to its PO and to its GR
C16_Witness ==
    \E i \in 1..Len(invoices) :
        /\ Targets(FreshGraph, <<"Invoice", i>>, "REFERENCES_PO", 1)
              = <<<<"PO", invoices[i].po_id>>>>
        /\ Targets(FreshGraph, <<"Invoice", i>>, "REFERENCES_GR", 1)
              = <<<<"GR", invoices[i].gr_id>>>>

\* ----------------------------------------------------------------- C19
\* C19: the report generate_comprehensive_report(workflow) returns is the
\* report of a graph freshly built from the documents of the workflow,
\* whatever the graph object held before the call.
C19_ReportIsFresh ==
    [][generate_comprehensive_report
          => report' = <<ReportOf(FreshGraph)>>]_vars

\* ----------------------------------------------------------------- C20
\* C20: a built graph is a snapshot: only build_graph_from_workflow
\* changes a node, a node attribute, an edge or an edge attribute of the
\* graph, so no workflow mutation after the build does; and the reasoning
\* query changes neither the graph nor the workflow.
C20_Snapshot ==
    /\ [][graph' # graph => build_graph_from_workflow]_vars
    /\ [][generate_comprehensive_report
             => UNCHANGED <<graph, purchase_orders, goods_receipts,
                            invoices, approval_policies>>]_vars

\* a graph built when the PO was Draft and Pending Approval, still showing
\* Pending Approval to a report made after the PO was approved, received,
\* invoiced and blocked
C20_Witness ==
    /\ <<"PO", 1>> \in DOMAIN graph.nodes
    /\ graph.nodes[<<"PO", 1>>].status = "Pending Approval"
    /\ \E k \in 1..Len(graph.edges) :
          /\ graph.edges[k].relation = "REQUIRES_APPROVAL"
          /\ graph.edges[k].status = "Pending"
    /\ purchase_orders[1].status = "Blocked"
    /\ purchase_orders[1].approvals[1].status = "Approved"
    /\ Len(invoices) = 1
    /\ <<"Invoice", 1>> \notin DOMAIN graph.nodes
    /\ ret = "Report"

\* ----------------------------------------------------------------- C21
\* the stored documents of a vendor that are in a status, by kind
PosIn(vendor, statuses) ==
    {p \in 1..Len(purchase_orders) :
        /\ purchase_orders[p].vendor_id = vendor
        /\ purchase_orders[p].status \in statuses}

InvoicesIn(vendor, statuses) ==
    {i \in 1..Len(invoices) :
        /\ invoices[i].vendor_id = vendor
        /\ invoices[i].status \in statuses}

\* the Rejected goods receipts against the POs of a vendor
RejectedAgainst(vendor) ==
    {g \in 1..Len(goods_receipts) :
        /\ goods_receipts[g].status = "Rejected"
        /\ goods_receipts[g].po_id \in 1..Len(purchase_orders)
        /\ purchase_orders[goods_receipts[g].po_id].vendor_id = vendor}

PoStatuses ==
    {"Draft", "Pending Approval", "Approved", "Rejected", "In Progress",
     "Completed", "Blocked", "Cancelled"}

C21_Score(vendor) ==
    LET b == Cardinality(PosIn(vendor, {"Blocked"}))
               + Cardinality(InvoicesIn(vendor, {"Blocked"}))
        r == Cardinality(RejectedAgainst(vendor))
        o == Cardinality(InvoicesIn(vendor, {"Overdue"}))
        bonus == IF Cardinality(PosIn(vendor, PoStatuses)) > 5
                    /\ b = 0 /\ r = 0 /\ o = 0
                 THEN 10 ELSE 0
        points == 20 * b + 30 * r + 15 * o - bonus
    IN IF points > 0 THEN points ELSE 0

C21_Level(score) ==
    IF score < 30 THEN "LOW" ELSE IF score < 60 THEN "MEDIUM" ELSE "HIGH"

\* C21: for a graph built from any workflow state, each vendor's
\* risk_score is max(0, 20*b + 30*r + 15*o - bonus), with b the vendor's
\* blocked POs and invoices, r the Rejected goods receipts against the
\* vendor's POs, o the vendor's Overdue invoices, and bonus 10 only when the
\* vendor has more than 5 POs and b = r = o = 0; risk_level is LOW below 30,
\* MEDIUM below 60, else HIGH.
C21_RiskScore ==
    [][(graph = FreshGraph /\ call_calculate_vendor_risk_scores)
          => \A p \in 1..Len(purchase_orders) :
                LET vendor == purchase_orders[p].vendor_id
                    entry == report'[1][<<"Vendor", vendor>>]
                IN /\ entry.risk_score = C21_Score(vendor)
                   /\ entry.risk_level = C21_Level(C21_Score(vendor))]_vars

\* ----------------------------------------------------------------- C22
\* the issues of a severity that a list of issues holds for an invoice
IssuesOf(found, i, severity) ==
    {k \in 1..Len(found) :
        /\ found[k].invoice_id = <<"Invoice", i>>
        /\ found[k].severity = severity}

Distance(a, b) == IF a >= b THEN a - b ELSE b - a

\* C22: for every invoice with both PO and GR references and a non-zero PO
\* amount, detect_three_way_match_issues reports a MEDIUM amount issue for
\* it if and only if |invoice amount - PO amount| exceeds 5% of the PO
\* amount, and a HIGH issue if and only if the status of the referenced GR,
\* as the graph holds it, is not Accepted.
C22_ThreeWayMatch ==
    [][(graph = FreshGraph /\ call_detect_three_way_match_issues)
          => \A i \in 1..Len(invoices) :
                LET inv == invoices[i]
                    po_amount == purchase_orders[inv.po_id].total_amount
                IN po_amount # 0 =>
                    /\ ret' = "Issues"
                    /\ Cardinality(IssuesOf(report'[1], i, "MEDIUM")) =
                          IF 20 * Distance(inv.total_amount, po_amount)
                                > po_amount
                          THEN 1 ELSE 0
                    /\ Cardinality(IssuesOf(report'[1], i, "HIGH")) =
                          IF goods_receipts[inv.gr_id].status # "Accepted"
                          THEN 1 ELSE 0]_vars

\* ----------------------------------------------------------------- C23
\* C23: when an invoice references a PO whose total amount is zero,
\* detect_three_way_match_issues completes without error and reports no
\* amount-variance issue for that invoice.
C23_ZeroAmountPO ==
    [][(graph = FreshGraph /\ call_detect_three_way_match_issues)
          => /\ ret' = "Issues"
             /\ \A i \in 1..Len(invoices) :
                   purchase_orders[invoices[i].po_id].total_amount = 0
                      => IssuesOf(report'[1], i, "MEDIUM") = {}]_vars


\* ----------------------------------------------------------------- C24
\* the approval records of a stored document that are still Pending
C24_Waiting(doc) ==
    {k \in 1..Len(doc.approvals) : doc.approvals[k].status = "Pending"}

C24_Score(doc) ==
    (IF doc.total_amount > 10000 THEN 30 ELSE 0)
    + (IF Cardinality(C24_Waiting(doc)) >= 3 THEN 20 ELSE 0)
    + (IF \/ PosIn(doc.vendor_id, {"Blocked"}) # {}
          \/ InvoicesIn(doc.vendor_id, {"Blocked"}) # {}
       THEN 25 ELSE 0)

\* what a list of predictions must hold for the stored document doc, which
\* the graph names id
C24_Rule(out, id, doc) ==
    LET hits == {k \in 1..Len(out) : out[k].document_id = id}
        score == C24_Score(doc)
    IN /\ Cardinality(hits) =
            IF doc.status = "Pending Approval" /\ score >= 30 THEN 1 ELSE 0
       /\ \A k \in hits :
             /\ out[k].delay_risk_score = score
             /\ out[k].risk_level \in {"HIGH", "MEDIUM"}
             /\ out[k].risk_level = "HIGH" <=> score >= 60
             /\ out[k].risk_level = "HIGH" => score = 75

C25_UnusedStatuses ==
    /\ \A i \in 1..Len(invoices) : invoices[i].status # "Rejected"
    /\ \A p \in 1..Len(purchase_orders) :
          purchase_orders[p].status # "Cancelled"
    /\ \A g \in 1..Len(goods_receipts) :
          goods_receipts[g].status \notin {"Draft", "Quality Check"}

\* a goods receipt has been stored and checked, its invoice was approved,
\* paid, blocked and unblocked, and the PO was blocked
C25_Witness ==
    /\ Len(goods_receipts) = 1
    /\ goods_receipts[1].status = "Accepted"
    /\ Len(invoices) = 1
    /\ invoices[1].payment_date # "None"
    /\ invoices[1].status = "Draft"
    /\ \E p \in 1..Len(purchase_orders) :
          purchase_orders[p].status = "Blocked"


\* ----------------------------------------------------------------- C26
\* how many times a graph holds an edge
C26_Copies(g, edge) ==
    Cardinality({k \in 1..Len(g.edges) : g.edges[k] = edge})

C26_SameEdges(g, h) ==
    /\ Len(g.edges) = Len(h.edges)
    /\ \A k \in 1..Len(g.edges) :
          C26_Copies(g, g.edges[k]) = C26_Copies(h, g.edges[k])

\* C26: a build on a graph object that already holds the graph of the
\* present workflow leaves the nodes and the multiset of edges as they
\* were, and with them each vendor's PO list, invoice list, blocked
\* documents and risk scores.
C26_FullRebuild ==
    [][(build_graph_from_workflow /\ graph = FreshGraph)
          => /\ graph'.nodes = graph.nodes
             /\ C26_SameEdges(graph, graph')
             /\ \A p \in 1..Len(purchase_orders) :
                   LET vendor == <<"Vendor", purchase_orders[p].vendor_id>>
                   IN /\ get_vendor_pos(graph', vendor)
                           = get_vendor_pos(graph, vendor)
                      /\ get_vendor_invoices(graph', vendor)
                           = get_vendor_invoices(graph, vendor)
                      /\ get_blocked_documents(graph', vendor)
                           = get_blocked_documents(graph, vendor)
             /\ calculate_vendor_risk_scores(graph')
                  = calculate_vendor_risk_scores(graph)]_vars


\* ----------------------------------------------------------------- C27
\* C27: the goods receipt a stored invoice names is stored and is a
\* receipt for the PO the invoice names.
C27_ReceiptOfInvoicedPO ==
    \A i \in 1..Len(invoices) :
        /\ invoices[i].gr_id \in 1..Len(goods_receipts)
        /\ goods_receipts[invoices[i].gr_id].po_id = invoices[i].po_id


\* ----------------------------------------------------------------- C28
\* C28: an invoice that pay_invoice has paid is never afterwards Draft,
\* Pending Approval or Approved, and pay_invoice does not succeed on it
\* again.
C28_PaidOnce ==
    [][\A i \in 1..Len(invoices) :
          invoices[i].payment_date # "None"
             => /\ invoices'[i].status
                     \notin {"Draft", "Pending Approval", "Approved"}
                /\ ~(pay_invoice(i) /\ ret' = "True")]_vars


\* ----------------------------------------------------------------- C29
\* the PO has no goods receipt among the receipts
C29_NoReceipt(receipts, p) ==
    \A g \in 1..Len(receipts) : receipts[g].po_id # p

\* C29: a Rejected PO has no goods receipt, and a step leaves it Rejected
\* or makes it Blocked, without a goods receipt; a Blocked PO without a
\* goods receipt stays so.  Hence a PO once Rejected is never Approved, In
\* Progress or Completed and never has a goods receipt.
C29_RejectedIsFinal ==
    [][\A p \in 1..Len(purchase_orders) :
          /\ purchase_orders[p].status = "Rejected"
                => /\ C29_NoReceipt(goods_receipts, p)
                   /\ purchase_orders'[p].status \in {"Rejected", "Blocked"}
                   /\ C29_NoReceipt(goods_receipts', p)
          /\ (/\ purchase_orders[p].status = "Blocked"
              /\ C29_NoReceipt(goods_receipts, p))
                => /\ purchase_orders'[p].status = "Blocked"
                   /\ C29_NoReceipt(goods_receipts', p)]_vars

\* a PO was rejected by an approver and blocked afterwards
C29_Witness ==
    \E p \in 1..Len(purchase_orders) :
        /\ purchase_orders[p].status = "Blocked"
        /\ \E k \in 1..Len(purchase_orders[p].approvals) :
              purchase_orders[p].approvals[k].status = "Rejected"
        /\ C29_NoReceipt(goods_receipts, p)


\* ----------------------------------------------------------------- C30
\* C30: on a graph built from any workflow state whose invoice amounts are
\* not negative, detect_fraud_patterns reports no unusual invoice amount
\* for a vendor that has fewer than 4 invoices.
C30_NoFlagBelowFour ==
    [][\A now \in Times :
          (call_detect_fraud_patterns(now) /\ graph = FreshGraph)
             => \A k \in 1..Len(report'[1]) :
                   report'[1][k].type = "Unusual Invoice Amount"
                      => Cardinality(InvoicesIn(report'[1][k].vendor,
                                                {invoices[i].status :
                                                   i \in 1..Len(invoices)}))
                            >= 4]_vars

====
